---- MODULE Spec2Model ----
(***************************************************************************)
(* Block tree editor (DraggableBlock), the two condition compilers         *)
(* (blocksToJson / blockToJson and blocksToJson / processBlock), the       *)
(* EncryptionPanel, the error display of TacoPlayground and NetworkCheck   *)
(* of the TACo playground, as state machines.                              *)
(*                                                                         *)
(* Text is a sequence of symbols: one-character strings for the characters *)
(* that parsing looks at (digits, blanks, signs, brackets) and opaque      *)
(* words (W("balanceOf")) for the rest.  undefined is the symbol Undef.    *)
(***************************************************************************)
EXTENDS Integers, Sequences, FiniteSets, TLC

VARIABLES
    block,      \* editor: the workspace block a DraggableBlock renders (props.block)
    now,        \* editor: the value Date.now() returns
    last,       \* editor: what the last handler call was, and the tree before it
    blocks,     \* compiler: the Block[] handed to blocksToJson
    json,       \* compiler: what each blocksToJson returned for `blocks`
    panel,      \* EncryptionPanel: its props and state, and where handleEncrypt is
    errors,     \* TacoPlayground: the error displayed and the timers set for it
    wallet      \* NetworkCheck: the component, and the listeners on window.ethereum

vars == <<block, now, last, blocks, json, panel, errors, wallet>>

\* ------------------------------------------------------------------ bounds
MaxTicks == 1
FirstTick == 2
MaxSlots == 3
MaxBlocks == 3
MaxParams == 2
MaxOperands == 2
MaxObjects == 4

\* ------------------------------------------------------------------ text
\* A numeric property that is not set (undefined) is -1.
UnsetNum == 0 - 1

W(word) == <<word>>
Empty == <<>>
Undef == <<"?undefined">>

\* JavaScript truthiness of an optional string.
Truthy(s) == s # Undef /\ s # Empty

Digits == <<"0", "1", "2", "3", "4", "5", "6", "7", "8", "9">>
HexLetters == <<"a", "b", "c", "d", "e", "f">>

IsDigit(c) == \E i \in 1..10 : Digits[i] = c
DigitVal(c) == (CHOOSE i \in 1..10 : Digits[i] = c) - 1
IsHexDigit(c) == IsDigit(c) \/ \E i \in 1..6 : HexLetters[i] = c
HexVal(c) == IF IsDigit(c) THEN DigitVal(c)
             ELSE 9 + (CHOOSE i \in 1..6 : HexLetters[i] = c)

RECURSIVE SkipSpace(_)
SkipSpace(s) == IF s # <<>> /\ Head(s) = " " THEN SkipSpace(Tail(s)) ELSE s

RECURSIVE DropTrailingSpace(_)
DropTrailingSpace(s) ==
    IF s # <<>> /\ s[Len(s)] = " " THEN DropTrailingSpace(SubSeq(s, 1, Len(s) - 1)) ELSE s

\* String.prototype.trim
Trim(s) == DropTrailingSpace(SkipSpace(s))

\* The longest run of digits of the radix at the front of s: its value and length.
RECURSIVE ReadDigits(_, _, _, _)
ReadDigits(s, radix, acc, count) ==
    IF s # <<>> /\ (IF radix = 16 THEN IsHexDigit(Head(s)) ELSE IsDigit(Head(s)))
    THEN ReadDigits(Tail(s), radix, acc * radix + HexVal(Head(s)), count + 1)
    ELSE [n |-> acc, count |-> count, rest |-> s]

\* JavaScript values that a returnValueTest can carry.
Num(n) == [k |-> "number", n |-> n, frac |-> <<>>, s |-> <<>>]
Frac(n, f) == [k |-> "number", n |-> n, frac |-> f, s |-> <<>>]
NaN == [k |-> "NaN", n |-> 0, frac |-> <<>>, s |-> <<>>]
StrV(s) == [k |-> "string", n |-> 0, frac |-> <<>>, s |-> s]

isNaN(v) == v.k = "NaN"

\* parseInt(value): blanks, a sign, 0x for radix 16, then the digits; NaN without one.
parseInt(value) ==
    LET t == SkipSpace(value)
        neg == t # <<>> /\ Head(t) = "-"
        u == IF t # <<>> /\ Head(t) \in {"-", "+"} THEN Tail(t) ELSE t
        hex == Len(u) >= 2 /\ u[1] = "0" /\ u[2] \in {"x", "X"}
        body == IF hex THEN SubSeq(u, 3, Len(u)) ELSE u
        r == ReadDigits(body, IF hex THEN 16 ELSE 10, 0, 0)
    IN  IF r.count = 0 THEN NaN
        ELSE Num(IF neg THEN 0 - r.n ELSE r.n)

RECURSIVE StripZeros(_)
StripZeros(f) ==
    IF f # <<>> /\ f[Len(f)] = "0" THEN StripZeros(SubSeq(f, 1, Len(f) - 1)) ELSE f

RECURSIVE TakeDigits(_)
TakeDigits(s) ==
    IF s # <<>> /\ IsDigit(Head(s)) THEN <<Head(s)>> \o TakeDigits(Tail(s)) ELSE <<>>

\* parseFloat(value): blanks, a sign, decimal digits, a fraction; no radix 16.
\* (Exponents are outside the texts the model enters.)
parseFloat(value) ==
    LET t == SkipSpace(value)
        neg == t # <<>> /\ Head(t) = "-"
        u == IF t # <<>> /\ Head(t) \in {"-", "+"} THEN Tail(t) ELSE t
        r == ReadDigits(u, 10, 0, 0)
        fr == IF r.rest # <<>> /\ Head(r.rest) = "." THEN TakeDigits(Tail(r.rest)) ELSE <<>>
    IN  IF r.count = 0 /\ fr = <<>> THEN NaN
        ELSE Frac(IF neg THEN 0 - r.n ELSE r.n, StripZeros(fr))

\* ------------------------------------------------------------------ blocks
\* Block: [id, type, props, inputs, value]; BlockInput: [id, type, label, value,
\* comparator, connected, inputType].  (category, label and isTemplate of a
\* block only steer the display and are left out.)  An id or a label is a text and a number
\* ("condition-<n>", "param_<n>", "Condition <n>"); the number is UnsetNum when
\* the text has none.  A string property that is not set is "unset".
NoBlock == [type |-> "none"]

Id(base) == [base |-> base, n |-> UnsetNum]
IdN(base, n) == [base |-> base, n |-> n]

NoParams == [set |-> FALSE, val |-> <<>>]
Params(val) == [set |-> TRUE, val |-> val]
NoTest == [set |-> FALSE, comparator |-> "unset", value |-> Num(0)]
Test(c, v) == [set |-> TRUE, comparator |-> c, value |-> v]

\* has: the block has a properties object at all.
NoProps ==
    [has |-> FALSE, conditionType |-> "unset", method |-> Undef, operator |-> "unset",
     maxInputs |-> UnsetNum, parameters |-> NoParams, parameterCount |-> UnsetNum,
     standardContractType |-> "unset", returnValueTest |-> NoTest]

Input(id, type, label, value, comparator, connected, inputType) ==
    [id |-> id, type |-> type, label |-> label, value |-> value,
     comparator |-> comparator, connected |-> connected, inputType |-> inputType]

\* inputs.find(input => input.id === id): the first input with the id, or none.
HasInput(inputs, id) == \E k \in 1..Len(inputs) : inputs[k].id = id
FindIndex(inputs, id) ==
    IF HasInput(inputs, id)
    THEN CHOOSE k \in 1..Len(inputs) :
            inputs[k].id = id /\ \A j \in 1..(k - 1) : inputs[j].id # id
    ELSE 0
InputValue(inputs, id) ==
    IF HasInput(inputs, id) THEN inputs[FindIndex(inputs, id)].value ELSE Undef
InputComparator(inputs, id) ==
    IF HasInput(inputs, id) THEN inputs[FindIndex(inputs, id)].comparator ELSE "unset"

\* ------------------------------------------------------------------ conditions
Sepolia == 11155111
ValidChains == {1, 137, 80002, 11155111}

isValidChainId(chainId) == chainId.k = "number" /\ chainId.frac = <<>> /\ chainId.n \in ValidChains

\* A variant of parseChainId that returns every number parsed, to test C12
\* against.
parseChainIdUnchecked(value) ==
    LET parsed == parseInt(value)
    IN  IF parsed.k = "number" THEN parsed.n ELSE Sepolia

\* First compiler: an invalid chain becomes Sepolia.
parseChainId(value) ==
    LET parsed == parseInt(value)
    IN  IF isValidChainId(parsed) THEN parsed.n ELSE Sepolia

Absent == [conditionType |-> "absent"]

ReturnValueTest(c, v) == [comparator |-> c, value |-> v]

CompoundCondition(operator, operands) ==
    [conditionType |-> "compound", operator |-> operator, operands |-> operands]
TimeCondition(chain, rvt) ==
    [conditionType |-> "time", chain |-> chain, method |-> W("blocktime"),
     returnValueTest |-> rvt]
RpcCondition(chain, method, parameters, rvt) ==
    [conditionType |-> "rpc", chain |-> chain, method |-> method,
     parameters |-> parameters, returnValueTest |-> rvt]
ContractCondition(chain, address, method, parameters, sct, rvt) ==
    [conditionType |-> "contract", chain |-> chain, contractAddress |-> address,
     method |-> method, parameters |-> parameters, standardContractType |-> sct,
     returnValueTest |-> rvt]

UserAddressLatest == <<W(":userAddress"), W("latest")>>
UserAddress == <<W(":userAddress")>>

\* chain of the first compiler: Sepolia unless the chain input has a value.
ChainOf(inputs) ==
    IF Truthy(InputValue(inputs, Id("chain")))
    THEN parseChainId(InputValue(inputs, Id("chain")))
    ELSE Sepolia

\* returnValueTest of the first compiler from a numeric input, or the default.
TestOf(inputs, id, default) ==
    IF Truthy(InputValue(inputs, id))
    THEN ReturnValueTest(
            IF InputComparator(inputs, id) = "unset" THEN ">=" ELSE InputComparator(inputs, id),
            parseInt(InputValue(inputs, id)))
    ELSE default

Connected(inputs) == SelectSeq(inputs, LAMBDA i : i.connected # NoBlock)

\* A variant of NotAbsent that keeps every operand, to test C14 against.
KeepAll(conds) == conds

NotAbsent(conds) == SelectSeq(conds, LAMBDA c : c # Absent)

RpcParametersOf(props) ==
    IF props.parameters.set THEN props.parameters.val ELSE UserAddressLatest

RECURSIVE blockToJson(_)
blockToJson(b) ==
    IF b = NoBlock THEN Absent
    ELSE IF b.type = "operator" THEN
        LET conn == Connected(b.inputs)
            operands == NotAbsent([k \in 1..Len(conn) |-> blockToJson(conn[k].connected)])
        IN  IF Len(operands) = 0 THEN Absent
            ELSE CompoundCondition(
                    IF b.props.operator = "unset" THEN "and" ELSE b.props.operator,
                    operands)
    ELSE IF b.type = "condition" THEN
        CASE b.props.conditionType = "time" ->
                TimeCondition(ChainOf(b.inputs),
                    TestOf(b.inputs, Id("minTimestamp"), ReturnValueTest(">=", Num(0))))
          [] b.props.conditionType = "rpc" ->
                RpcCondition(ChainOf(b.inputs),
                    IF Truthy(b.props.method) THEN b.props.method ELSE W("eth_getBalance"),
                    RpcParametersOf(b.props),
                    TestOf(b.inputs, Id("minBalance"), ReturnValueTest(">=", StrV(<<"0">>))))
          [] b.props.conditionType = "contract" ->
                ContractCondition(ChainOf(b.inputs),
                    IF Truthy(InputValue(b.inputs, Id("contractAddress")))
                    THEN InputValue(b.inputs, Id("contractAddress")) ELSE Empty,
                    IF Truthy(b.props.method) THEN b.props.method ELSE W("balanceOf"),
                    IF b.props.parameters.set THEN b.props.parameters.val ELSE UserAddress,
                    b.props.standardContractType,
                    IF Truthy(InputValue(b.inputs, Id("tokenAmount")))
                    THEN TestOf(b.inputs, Id("tokenAmount"), ReturnValueTest(">=", StrV(<<"0">>)))
                    ELSE IF b.props.returnValueTest.set
                    THEN ReturnValueTest(b.props.returnValueTest.comparator,
                                         b.props.returnValueTest.value)
                    ELSE ReturnValueTest(">=", StrV(<<"0">>)))
          [] OTHER -> Absent
    ELSE Absent

\* blocks.find(...): the first condition or operator block that no operator
\* block of the array has connected (compared by id).
IsRootCandidate(bs, k) ==
    /\ bs[k].type \in {"condition", "operator"}
    /\ ~ \E j \in 1..Len(bs) :
            /\ bs[j].type = "operator"
            /\ \E i \in 1..Len(bs[j].inputs) :
                  /\ bs[j].inputs[i].connected # NoBlock
                  /\ bs[j].inputs[i].connected.id = bs[k].id

blocksToJson(bs) ==
    IF Len(bs) = 0 THEN Absent
    ELSE IF ~ \E k \in 1..Len(bs) : IsRootCandidate(bs, k) THEN Absent
    ELSE blockToJson(bs[CHOOSE k \in 1..Len(bs) :
            IsRootCandidate(bs, k) /\ \A j \in 1..(k - 1) : ~IsRootCandidate(bs, j)])

\* ------------------------------------------------------------------ second compiler
\* JSON.parse of the texts the model enters: an array of words, "[" w "," w "]".
\* Anything else the model enters is no JSON: ok is FALSE (a SyntaxError).
RECURSIVE JsonElements(_)
JsonElements(s) ==
    IF s = <<>> THEN [ok |-> FALSE, val |-> <<>>]
    ELSE IF Head(s) \in {"[", "]", ",", " "} THEN [ok |-> FALSE, val |-> <<>>]
    ELSE IF Len(s) >= 2 /\ s[2] = "]" /\ Len(s) = 2 THEN [ok |-> TRUE, val |-> <<W(Head(s))>>]
    ELSE IF Len(s) >= 3 /\ s[2] = ","
         THEN LET r == JsonElements(SubSeq(s, 3, Len(s)))
              IN  [ok |-> r.ok, val |-> <<W(Head(s))>> \o r.val]
    ELSE [ok |-> FALSE, val |-> <<>>]

\* A variant of JsonParse that takes text that is no JSON as an array of one
\* word, to test C19 against.
JsonParseAnything(s) ==
    IF s = <<"[", "]">> THEN [ok |-> TRUE, val |-> <<>>]
    ELSE IF s # <<>> /\ Head(s) = "[" /\ JsonElements(Tail(s)).ok THEN JsonElements(Tail(s))
    ELSE [ok |-> TRUE, val |-> <<s>>]

JsonParse(s) ==
    IF s = <<"[", "]">> THEN [ok |-> TRUE, val |-> <<>>]
    ELSE IF s # <<>> /\ Head(s) = "[" THEN JsonElements(Tail(s))
    ELSE [ok |-> FALSE, val |-> <<>>]

EmptyBuilder ==
    [conditionType |-> "unset", chain |-> UnsetNum, contractAddress |-> Undef,
     method |-> Undef, parameters |-> NoParams, returnValueTest |-> NoTest,
     functionAbi |-> NoParams]

\* input.value || input.connected?.value
ValueOrConnected(input) ==
    IF Truthy(input.value) THEN input.value
    ELSE IF input.connected # NoBlock THEN input.connected.value
    ELSE Undef

\* One turn of block.inputs.forEach: the switch on input.id.
BuilderStep(builder, input, props) ==
    LET value == ValueOrConnected(input)
    IN  IF ~Truthy(value) THEN builder
        ELSE CASE input.id = Id("contractAddress") ->
                    [builder EXCEPT !.contractAddress = Trim(value)]
               [] input.id = Id("chain") ->
                    IF ~isNaN(parseInt(value)) /\ isValidChainId(parseInt(value))
                    THEN [builder EXCEPT !.chain = parseInt(value).n]
                    ELSE builder
               [] input.id = Id("minBalance") ->
                    IF ~isNaN(parseFloat(value))
                    THEN [builder EXCEPT !.returnValueTest =
                            Test(IF props.method = W("eth_getBalance") THEN ">=" ELSE ">",
                                 parseFloat(value))]
                    ELSE builder
               [] input.id \in {Id("timestamp"), Id("minTimestamp")} ->
                    IF ~isNaN(parseInt(value))
                    THEN [builder EXCEPT !.conditionType = "time",
                                         !.method = W("blocktime"),
                                         !.returnValueTest = Test(">=", parseInt(value))]
                    ELSE builder
               [] input.id = Id("tokenId") ->
                    [builder EXCEPT !.parameters =
                        Params([k \in 1..Len(builder.parameters.val) |->
                                  IF builder.parameters.val[k] = W(":tokenId")
                                  THEN value ELSE builder.parameters.val[k]])]
               [] input.id = Id("method") ->
                    [builder EXCEPT !.method = value]
               [] input.id = Id("parameters") ->
                    IF JsonParse(value).ok
                    THEN [builder EXCEPT !.parameters = Params(JsonParse(value).val)]
                    ELSE builder
               [] input.id = Id("functionAbi") ->
                    IF JsonParse(value).ok
                    THEN [builder EXCEPT !.functionAbi = Params(JsonParse(value).val)]
                    ELSE builder
               [] OTHER -> builder

RECURSIVE BuildFrom(_, _, _)
BuildFrom(builder, inputs, props) ==
    IF inputs = <<>> THEN builder
    ELSE BuildFrom(BuilderStep(builder, Head(inputs), props), Tail(inputs), props)

TestOrDefault(builder, c) ==
    IF builder.returnValueTest.set
    THEN ReturnValueTest(builder.returnValueTest.comparator, builder.returnValueTest.value)
    ELSE ReturnValueTest(c, Num(0))

\* What processBlock returns for an operator: the compound of the operands kept.
OperatorResult(operator, operands) ==
    CompoundCondition(IF operator = "unset" THEN "and" ELSE operator, operands)

RECURSIVE processBlock(_)
processBlock(b) ==
    IF b = NoBlock THEN Absent
    ELSE IF ~b.props.has THEN Absent
    ELSE IF b.type = "operator" THEN
        LET conn == Connected(b.inputs)
        IN  OperatorResult(b.props.operator,
                NotAbsent([k \in 1..Len(conn) |-> processBlock(conn[k].connected)]))
    ELSE
        LET builder == BuildFrom(EmptyBuilder, b.inputs, b.props)
        IN  IF b.props.method = W("eth_getBalance") /\ builder.chain # UnsetNum
            THEN RpcCondition(builder.chain, W("eth_getBalance"), UserAddressLatest,
                              TestOrDefault(builder, ">="))
            ELSE IF /\ b.props.conditionType = "contract"
                    /\ builder.chain # UnsetNum
                    /\ Truthy(builder.method)
            THEN ContractCondition(builder.chain,
                    IF Truthy(builder.contractAddress) THEN builder.contractAddress ELSE Empty,
                    builder.method,
                    builder.parameters.val,
                    b.props.standardContractType,
                    TestOrDefault(builder, ">"))
            ELSE IF builder.conditionType = "time" /\ builder.chain # UnsetNum
            THEN TimeCondition(builder.chain, TestOrDefault(builder, ">="))
            ELSE Absent

\* blocks.filter(...): the blocks no block of the array has connected (by id).
IsTopLevel(bs, k) ==
    ~ \E j \in 1..Len(bs) : \E i \in 1..Len(bs[j].inputs) :
          /\ bs[j].inputs[i].connected # NoBlock
          /\ bs[j].inputs[i].connected.id = bs[k].id

TopLevelBlocks(bs) ==
    LET idx == SelectSeq([k \in 1..Len(bs) |-> k], LAMBDA k : IsTopLevel(bs, k))
    IN  [k \in 1..Len(idx) |-> bs[idx[k]]]

blocksToJsonBuilder(bs) ==
    LET top == TopLevelBlocks(bs)
        conditions == NotAbsent([k \in 1..Len(top) |-> processBlock(top[k])])
    IN  IF Len(top) = 0 THEN Absent
        ELSE IF Len(top) = 1 THEN processBlock(top[1])
        ELSE IF Len(conditions) = 0 THEN Absent
        ELSE IF Len(conditions) = 1 THEN conditions[1]
        ELSE CompoundCondition("and", conditions)

\* ------------------------------------------------------------------ template catalog
\* The catalog of block prototypes (BlockTypes) and the shape of its blocks.
Label(text) == [text |-> text, n |-> UnsetNum]
LabelN(text, n) == [text |-> text, n |-> n]

Block(id, type, props, inputs) ==
    [id |-> id, type |-> type, props |-> props, inputs |-> inputs, value |-> Undef]

ValueSlot(name, value, comparator) ==
    Input(Id(name), {"value"}, Label(name), value, comparator, NoBlock, "text")

EmptySlot(id) ==
    Input(id, {"condition", "operator"}, Label("Add Condition"), Undef, "unset", NoBlock, "unset")

ConditionProps(ct, method, parameters) ==
    [NoProps EXCEPT !.has = TRUE, !.conditionType = ct, !.method = method,
                    !.parameters = parameters]

OperatorProps(operator, maxInputs) ==
    [NoProps EXCEPT !.has = TRUE, !.operator = operator, !.maxInputs = maxInputs]

TimeBlock(chain, ts, cmp) ==
    Block(Id("time"), "condition", ConditionProps("time", Undef, NoParams),
          <<ValueSlot("chain", chain, "unset"), ValueSlot("minTimestamp", ts, cmp)>>)

RpcBlock(method, parameters, chain, bal, cmp) ==
    Block(Id("rpc"), "condition", ConditionProps("rpc", method, parameters),
          <<ValueSlot("chain", chain, "unset"), ValueSlot("minBalance", bal, cmp)>>)

\* mslot: the text of the method input, Undef for a block that has no such input.
ContractBlock(method, chain, address, mslot, amount, cmp) ==
    Block(Id("contract"), "condition", ConditionProps("contract", method, NoParams),
          <<ValueSlot("contractAddress", address, "unset"),
            ValueSlot("chain", chain, "unset")>>
          \o (IF mslot = Undef THEN <<>> ELSE <<ValueSlot("method", mslot, "unset")>>)
          \o <<ValueSlot("tokenAmount", amount, cmp)>>)

\* The id of an operator block names its template (and, or; "operator" for one
\* without properties.operator).
OperatorBlock(operator, maxInputs, inputs) ==
    Block(Id(IF operator = "unset" THEN "operator" ELSE operator), "operator",
          OperatorProps(operator, maxInputs), inputs)

\* ------------------------------------------------------------------ compiler inputs
SepoliaText == <<"1", "1", "1", "5", "5", "1", "1", "1">>
ChainTexts ==
    {Empty, <<"1">>, <<"1", "3", "7">>, <<"9", "9", "9">>, <<"a", "b", "c">>, SepoliaText,
     <<"0", "x", "8", "9">>, <<" ", "1", "3", "7", "a">>}
NumTexts == {Empty, <<"5">>, <<"x">>}
Comparators == {"unset", ">"}

TimeBlocks == {TimeBlock(c, t, cmp) : c \in ChainTexts, t \in NumTexts, cmp \in Comparators}

RpcBlocks ==
    {RpcBlock(m, p, c, v, cmp) :
        m \in {Undef, W("eth_getBalance")},
        p \in {NoParams, Params(UserAddressLatest), Params(<<W("0xabc"), W("latest")>>)},
        c \in ChainTexts, v \in NumTexts, cmp \in Comparators}

\* The second set: blocks whose template sets properties.returnValueTest.
ContractBlocks ==
    {ContractBlock(m, c, a, ms, v, cmp) :
        m \in {Undef, W("balanceOf")}, c \in ChainTexts,
        a \in {Empty, W("0xABC")}, ms \in {Undef, Empty, W("balanceOf")},
        v \in NumTexts, cmp \in Comparators}
    \cup
    {[ContractBlock(W("balanceOf"), c, W("0xABC"), ms, v, cmp)
        EXCEPT !.props.returnValueTest = Test("==", Num(1))] :
        c \in {Empty, <<"1", "3", "7">>}, ms \in {Undef, W("balanceOf")},
        v \in NumTexts, cmp \in Comparators}

\* Contract blocks with a parameters and a functionAbi input, holding nothing,
\* a JSON array, or text that is no JSON.
JsonBlocks ==
    LET texts == {Empty, <<"[", "a", "]">>, <<"[", "a", ",", "b", "]">>, <<"[", "a">>,
                  <<"[", ",", "]">>}
        base == ContractBlock(W("balanceOf"), <<"1", "3", "7">>, W("0xABC"), W("balanceOf"),
                              <<"5">>, "unset")
    IN  {[base EXCEPT !.inputs = SubSeq(base.inputs, 1, 3)
                        \o <<ValueSlot("parameters", p, "unset"),
                              ValueSlot("functionAbi", f, "unset")>>
                        \o SubSeq(base.inputs, 4, 4)] : p \in texts, f \in texts}

\* The conditions that operators of the compiler inputs hold.
Operands ==
    {TimeBlock(Empty, Empty, "unset"),
     TimeBlock(<<"1">>, <<"5">>, ">"),
     TimeBlock(<<"9", "9", "9">>, <<"5">>, "unset"),
     RpcBlock(W("eth_getBalance"), NoParams, <<"1", "3", "7">>, <<"5">>, "unset"),
     ContractBlock(Undef, Empty, Empty, Undef, Empty, "unset"),
     ContractBlock(W("balanceOf"), <<"1", "3", "7">>, W("0xABC"), W("balanceOf"), <<"5">>, ">")}

\* Operator inputs of up to n slots, each empty or connected to one of `children`.
SlotOf(k, child) ==
    IF child = NoBlock THEN EmptySlot(IdN("condition", k))
    ELSE [EmptySlot(IdN("condition", k)) EXCEPT !.connected = child,
                                                !.label = LabelN("Condition", k)]

SlotLists(children, n) ==
    UNION {{[k \in 1..len |-> SlotOf(k, f[k])] : f \in [1..len -> children \cup {NoBlock}]} :
            len \in 1..n}

FlatOperators ==
    {OperatorBlock(op, UnsetNum, inputs) :
        op \in {"and", "or", "unset"}, inputs \in SlotLists(Operands, MaxOperands)}

NestedOperands ==
    {TimeBlock(<<"1">>, <<"5">>, ">"),
     ContractBlock(Undef, Empty, Empty, Undef, Empty, "unset"),
     OperatorBlock("or", UnsetNum, <<SlotOf(1, NoBlock)>>),
     OperatorBlock("or", UnsetNum, <<SlotOf(1, TimeBlock(<<"1">>, <<"5">>, ">")), SlotOf(2, NoBlock)>>),
     OperatorBlock("or", UnsetNum,
        <<SlotOf(1, ContractBlock(Undef, Empty, Empty, Undef, Empty, "unset"))>>)}

NestedOperators ==
    {OperatorBlock("and", UnsetNum, inputs) : inputs \in SlotLists(NestedOperands, MaxOperands)}

CompilerRoots ==
    TimeBlocks \cup RpcBlocks \cup ContractBlocks \cup JsonBlocks
    \cup FlatOperators \cup NestedOperators

\* Collections of several blocks: two standalone conditions, an operator with
\* the block it has connected (same id) before or after it, a value block alone
\* and beside a condition.
Collections ==
    LET t1 == [TimeBlock(<<"1">>, <<"5">>, ">") EXCEPT !.id = IdN("time", 1)]
        r2 == [RpcBlock(W("eth_getBalance"), NoParams, <<"1", "3", "7">>, <<"5">>, "unset")
                  EXCEPT !.id = IdN("rpc", 2)]
        op == [OperatorBlock("or", UnsetNum, <<SlotOf(1, t1), SlotOf(2, NoBlock)>>)
                  EXCEPT !.id = IdN("or", 3)]
        v  == [Block(IdN("value", 4), "value", NoProps, <<>>) EXCEPT !.value = <<"5">>]
    IN  {<<t1, r2>>, <<r2, t1>>, <<op, t1>>, <<t1, op>>, <<t1, op, r2>>,
         <<v>>, <<v, t1>>, <<t1, v>>}

Pending == [conditionType |-> "pending"]
Idle == [what |-> "none"]

InitCompile ==
    /\ blocks \in {<<>>} \cup {<<b>> : b \in CompilerRoots} \cup Collections
    /\ json = [first |-> Pending, second |-> Pending]
    /\ panel = Idle /\ errors = Idle /\ wallet = Idle
    /\ block = NoBlock
    /\ now = FirstTick
    /\ last = Idle

\* The first blocksToJson is called on the blocks.
Compile ==
    /\ json.first = Pending
    /\ json' = [json EXCEPT !.first = blocksToJson(blocks)]
    /\ UNCHANGED <<panel, errors, wallet, blocks, block, now, last>>

\* The second blocksToJson (processBlock) is called on the blocks.
CompileBuilder ==
    /\ json.second = Pending
    /\ json' = [json EXCEPT !.second = blocksToJsonBuilder(blocks)]
    /\ UNCHANGED <<panel, errors, wallet, blocks, block, now, last>>

NextCompile == Compile \/ CompileBuilder

SpecCompile == InitCompile /\ [][NextCompile]_vars

\* ------------------------------------------------------------------ claims on the compilers
\* The blocks of a tree: the block and, through connected, all below it.
RECURSIVE SubBlocks(_)
SubBlocks(b) ==
    IF b = NoBlock THEN {}
    ELSE {b} \cup UNION {SubBlocks(b.inputs[k].connected) : k \in 1..Len(b.inputs)}

AllBlocks == UNION {SubBlocks(blocks[k]) : k \in 1..Len(blocks)}

\* The conditions of a compiled document: the condition and all its operands.
RECURSIVE SubConditions(_)
SubConditions(c) ==
    IF c.conditionType = "compound"
    THEN {c} \cup UNION {SubConditions(c.operands[k]) : k \in 1..Len(c.operands)}
    ELSE {c}

Compiled == json.first # Pending /\ json.second # Pending

NoOperand(b) == b.type = "operator" /\ Connected(b.inputs) = <<>>

NoEmptyCompound(c) ==
    \A d \in SubConditions(c) : d.conditionType = "compound" => Len(d.operands) > 0

\* C1: an operator block with no connected operand compiles to absent at any
\* depth, and no compound condition with an empty operands list is emitted.
C1_EmptyOperatorIsAbsent ==
    Compiled =>
        /\ \A b \in AllBlocks : NoOperand(b) =>
              blockToJson(b) = Absent /\ processBlock(b) = Absent
        /\ NoEmptyCompound(json.first)
        /\ NoEmptyCompound(json.second)

IsBalanceBlock(b) ==
    /\ b.type = "condition"
    /\ b.props.conditionType = "rpc"
    /\ b.props.method = W("eth_getBalance")

\* C2: a condition block with conditionType rpc and method eth_getBalance is
\* emitted with the parameters [":userAddress", "latest"], whatever its
\* parameters property.
C2_BalanceParametersFixed ==
    Compiled =>
        \A b \in AllBlocks : IsBalanceBlock(b) =>
            /\ blockToJson(b) # Absent => blockToJson(b).parameters = UserAddressLatest
            /\ processBlock(b) # Absent => processBlock(b).parameters = UserAddressLatest

\* What a compile that fails on a chain would return: the error with the valid ids.
InvalidChainError == [conditionType |-> "error", validChains |-> ValidChains]

HasInvalidChain(b) ==
    /\ b.type = "condition"
    /\ Truthy(InputValue(b.inputs, Id("chain")))
    /\ ~isValidChainId(parseInt(InputValue(b.inputs, Id("chain"))))

\* C6: when the chain input of a condition block holds an entered value that is
\* no valid chain id, compile fails with an error that lists the valid chain ids.
C6_InvalidChainFails ==
    Compiled /\ (\E b \in AllBlocks : HasInvalidChain(b)) =>
        json.first = InvalidChainError /\ json.second = InvalidChainError

IsBareContract(b) ==
    /\ b.type = "condition"
    /\ b.props.conditionType = "contract"
    /\ ~Truthy(InputValue(b.inputs, Id("contractAddress")))
    /\ ~Truthy(b.props.method)
    /\ ~Truthy(InputValue(b.inputs, Id("method")))

\* The operands an operator block would emit, absent ones included.
OperandsFirst(b) ==
    [k \in 1..Len(Connected(b.inputs)) |-> blockToJson(Connected(b.inputs)[k].connected)]
OperandsSecond(b) ==
    [k \in 1..Len(Connected(b.inputs)) |-> processBlock(Connected(b.inputs)[k].connected)]

\* C7: a contract block with no contractAddress value and no method compiles to
\* absent, and as an operand it is left out of its operator's operands.
C7_BareContractIsAbsent ==
    Compiled =>
        /\ \A b \in AllBlocks : IsBareContract(b) =>
              blockToJson(b) = Absent /\ processBlock(b) = Absent
        /\ \A b \in AllBlocks : b.type = "operator" =>
              /\ blockToJson(b) # Absent =>
                    Len(blockToJson(b).operands) =
                        Cardinality({k \in 1..Len(Connected(b.inputs)) :
                            ~IsBareContract(Connected(b.inputs)[k].connected)
                            /\ OperandsFirst(b)[k] # Absent})
              /\ processBlock(b) # Absent =>
                    Len(processBlock(b).operands) =
                        Cardinality({k \in 1..Len(Connected(b.inputs)) :
                            ~IsBareContract(Connected(b.inputs)[k].connected)
                            /\ OperandsSecond(b)[k] # Absent})

\* ------------------------------------------------------------------ editor handlers
\* What a handler of a DraggableBlock does with onBlockUpdate: nothing, or one
\* call with the updated block.
NoUpdate == [updated |-> FALSE, block |-> NoBlock]
Update(b) == [updated |-> TRUE, block |-> b]

NoId == Id("?none")
Falsy(n) == n = UnsetNum \/ n = 0

\* The slot pushed behind a filled last slot: id condition-<Date.now()>.
GrowthSlot(t) == EmptySlot(IdN("condition", t))

\* The block made of a dropped item: every input gets value '' and inputType
\* 'text' where it has none.
DroppedBlock(item) ==
    [item EXCEPT !.inputs =
        [k \in 1..Len(item.inputs) |->
            [item.inputs[k] EXCEPT
                !.value = IF Truthy(@) THEN @ ELSE Empty,
                !.inputType = IF @ = "unset" THEN "text" ELSE @]]]

\* lastInput?.id === inputId && (!maxInputs || connectedCount < maxInputs)
NeedsGrowth(inputs, inputId, maxInputs) ==
    /\ inputs # <<>>
    /\ inputs[Len(inputs)].id = inputId
    /\ (Falsy(maxInputs) \/ Len(Connected(inputs)) < maxInputs)

\* A variant of DropValue that writes a nested drop's value to the parent's
\* input, to test C17 against.
DropValueOnParent(b, inputId, item, parentInputId) ==
    IF parentInputId # NoId THEN
        IF /\ HasInput(b.inputs, parentInputId)
           /\ b.inputs[FindIndex(b.inputs, parentInputId)].connected # NoBlock
           /\ HasInput(b.inputs[FindIndex(b.inputs, parentInputId)].connected.inputs, inputId)
        THEN Update([b EXCEPT !.inputs[FindIndex(b.inputs, parentInputId)].value = item.value])
        ELSE NoUpdate
    ELSE IF HasInput(b.inputs, inputId)
    THEN Update([b EXCEPT !.inputs[FindIndex(b.inputs, inputId)].value = item.value])
    ELSE NoUpdate

\* handleDrop, the item.type === 'value' part (lines 29-54).
DropValue(b, inputId, item, parentInputId) ==
    IF parentInputId # NoId THEN
        IF /\ HasInput(b.inputs, parentInputId)
           /\ b.inputs[FindIndex(b.inputs, parentInputId)].connected # NoBlock
           /\ HasInput(b.inputs[FindIndex(b.inputs, parentInputId)].connected.inputs, inputId)
        THEN LET p == FindIndex(b.inputs, parentInputId)
                 cb == b.inputs[p].connected
                 j == FindIndex(cb.inputs, inputId)
             IN  Update([b EXCEPT !.inputs[p].connected.inputs[j].value = item.value])
        ELSE NoUpdate
    ELSE IF HasInput(b.inputs, inputId)
    THEN Update([b EXCEPT !.inputs[FindIndex(b.inputs, inputId)].value = item.value])
    ELSE NoUpdate

\* handleDrop, drop into an input of the block connected at parentInputId (lines 56-99).
DropNested(b, inputId, item, parentInputId, t) ==
    IF /\ HasInput(b.inputs, parentInputId)
       /\ b.inputs[FindIndex(b.inputs, parentInputId)].connected # NoBlock
       /\ HasInput(b.inputs[FindIndex(b.inputs, parentInputId)].connected.inputs, inputId)
    THEN LET p == FindIndex(b.inputs, parentInputId)
             cb == b.inputs[p].connected
             j == FindIndex(cb.inputs, inputId)
             filled == [cb.inputs EXCEPT ![j].connected = DroppedBlock(item)]
             grown == IF cb.type = "operator"
                         /\ NeedsGrowth(filled, inputId, cb.props.maxInputs)
                      THEN Append(filled, GrowthSlot(t)) ELSE filled
         IN  Update([b EXCEPT !.inputs[p].connected.inputs = grown])
    ELSE NoUpdate

\* handleDrop, drop into an input of an operator block (lines 100-139).
DropOnOperator(b, inputId, item, t) ==
    IF HasInput(b.inputs, inputId)
    THEN LET i == FindIndex(b.inputs, inputId)
             filled == [b.inputs EXCEPT ![i].connected = DroppedBlock(item)]
             labelled == [filled EXCEPT
                            ![i].label = LabelN("Condition", Len(Connected(filled)))]
             grown == IF NeedsGrowth(labelled, inputId, b.props.maxInputs)
                      THEN Append(labelled, GrowthSlot(t)) ELSE labelled
         IN  Update([b EXCEPT !.inputs = grown])
    ELSE NoUpdate

\* handleDrop(inputId, item, parentInputId) of the component of block b at time t.
handleDrop(b, inputId, item, parentInputId, t) ==
    IF item.type = "value" /\ DropValue(b, inputId, item, parentInputId).updated
    THEN DropValue(b, inputId, item, parentInputId)
    ELSE IF parentInputId # NoId THEN DropNested(b, inputId, item, parentInputId, t)
    ELSE IF b.type = "operator" THEN DropOnOperator(b, inputId, item, t)
    ELSE IF b.type = "condition" /\ HasInput(b.inputs, inputId) /\ item.type = "value"
    THEN Update([b EXCEPT !.inputs[FindIndex(b.inputs, inputId)].value = item.value])
    ELSE NoUpdate

\* A variant of Renumbered that keeps the labels, to test C9 against.
RenumberedKeepingLabels(inputs) == Connected(inputs)

\* inputs.filter(connected), relabelled Condition 1..k.
Renumbered(inputs) ==
    [k \in 1..Len(Connected(inputs)) |->
        [Connected(inputs)[k] EXCEPT !.label = LabelN("Condition", k)]]

\* A variant of handleRemoveCondition that leaves the block connected, to test
\* C8 against.
handleRemoveConditionKeeping(b, inputId, t) ==
    IF b.type = "operator"
    THEN Update([b EXCEPT !.inputs = Append(Renumbered(b.inputs), GrowthSlot(t))])
    ELSE Update(b)

\* handleRemoveCondition(inputId) of the component of block b at time t.
handleRemoveCondition(b, inputId, t) ==
    IF b.type = "operator"
    THEN LET cleared == IF HasInput(b.inputs, inputId)
                        THEN [b.inputs EXCEPT
                                ![FindIndex(b.inputs, inputId)].connected = NoBlock]
                        ELSE b.inputs
         IN  Update([b EXCEPT !.inputs = Append(Renumbered(cleared), GrowthSlot(t))])
    ELSE Update(b)

\* findAndUpdateInput(currentBlock, targetInputId, path): ok and the block updated.
RECURSIVE findAndUpdateInput(_, _, _, _)
findAndUpdateInput(b, targetInputId, path, value) ==
    IF path = <<>> THEN
        IF HasInput(b.inputs, targetInputId)
        THEN Update([b EXCEPT !.inputs[FindIndex(b.inputs, targetInputId)].value = value])
        ELSE NoUpdate
    ELSE IF /\ HasInput(b.inputs, Head(path))
            /\ b.inputs[FindIndex(b.inputs, Head(path))].connected # NoBlock
    THEN LET p == FindIndex(b.inputs, Head(path))
             r == findAndUpdateInput(b.inputs[p].connected, targetInputId, Tail(path), value)
         IN  IF r.updated THEN Update([b EXCEPT !.inputs[p].connected = r.block])
             ELSE NoUpdate
    ELSE NoUpdate

\* A variant of handleValueChange that writes the value to every input of the
\* block, to test C10 against.
handleValueChangeAll(b, inputId, value, parentPath) ==
    IF HasInput(b.inputs, inputId)
    THEN Update([b EXCEPT !.inputs = [k \in 1..Len(b.inputs) |->
                                        [b.inputs[k] EXCEPT !.value = value]]])
    ELSE NoUpdate

\* handleValueChange(inputId, e, parentPath) of a workspace component of block b.
handleValueChange(b, inputId, value, parentPath) ==
    IF parentPath # <<>> THEN findAndUpdateInput(b, inputId, parentPath, value)
    ELSE IF HasInput(b.inputs, inputId)
    THEN Update([b EXCEPT !.inputs[FindIndex(b.inputs, inputId)].value = value])
    ELSE NoUpdate

\* handleComparatorChange(inputId, comparator) of a workspace component of block b.
handleComparatorChange(b, inputId, comparator) ==
    IF HasInput(b.inputs, inputId)
    THEN Update([b EXCEPT !.inputs[FindIndex(b.inputs, inputId)].comparator = comparator])
    ELSE NoUpdate

\* handleAddParameter() of a workspace component of block b.
handleAddParameter(b) ==
    LET paramCount == IF Falsy(b.props.parameterCount) THEN 1 ELSE b.props.parameterCount
        newParam == Input(IdN("param", paramCount), {"value"},
                          LabelN("Parameter", paramCount + 1), Undef, "unset", NoBlock, "text")
        lastParamIndex == FindIndex(b.inputs, IdN("param", paramCount - 1))
        inputs == IF lastParamIndex # 0
                  THEN SubSeq(b.inputs, 1, lastParamIndex) \o <<newParam>>
                       \o SubSeq(b.inputs, lastParamIndex + 1, Len(b.inputs))
                  ELSE Append(b.inputs, newParam)
    IN  Update([b EXCEPT !.inputs = inputs,
                         !.props.has = TRUE,
                         !.props.parameterCount = paramCount + 1])

\* ------------------------------------------------------------------ component tree
\* A component is a DraggableBlock; it renders a nested DraggableBlock for each
\* input that takes conditions or operators and is connected (lines 351-375).
\* A component path is the list of the input indexes from the root to it.
TakesBlocks(input) == input.type \cap {"condition", "operator"} # {}

RECURSIVE Components(_)
Components(b) ==
    {<<>>} \cup UNION {{<<k>> \o p : p \in Components(b.inputs[k].connected)} :
                        k \in {i \in 1..Len(b.inputs) :
                                TakesBlocks(b.inputs[i]) /\ b.inputs[i].connected # NoBlock}}

RECURSIVE SubAt(_, _)
SubAt(b, cp) == IF cp = <<>> THEN b ELSE SubAt(b.inputs[Head(cp)].connected, Tail(cp))

\* onBlockUpdate of the nested components on the way up (lines 367-374): each
\* parent finds the input by its id and connects the updated block there.
RECURSIVE Propagate(_, _, _)
Propagate(b, cp, updatedBlock) ==
    IF cp = <<>> THEN updatedBlock
    ELSE LET inputId == b.inputs[Head(cp)].id
         IN  [b EXCEPT !.inputs[FindIndex(b.inputs, inputId)].connected =
                    Propagate(b.inputs[Head(cp)].connected, Tail(cp), updatedBlock)]

RECURSIVE BlockCount(_)
RECURSIVE SumCounts(_, _)
SumCounts(inputs, k) ==
    IF k > Len(inputs) THEN 0 ELSE BlockCount(inputs[k].connected) + SumCounts(inputs, k + 1)
BlockCount(b) == IF b = NoBlock THEN 0 ELSE 1 + SumCounts(b.inputs, 1)

WithinBounds(b) ==
    /\ BlockCount(b) <= MaxBlocks
    /\ \A c \in SubBlocks(b) : Len(c.inputs) <= MaxSlots

\* ------------------------------------------------------------------ editor
\* The palette: the template blocks a drag can start from.  A drag of a palette
\* block gives the item the id <template id>-<Date.now()> (useDrag, lines
\* 152-171); no handler of the editor reads the id of a block, the workspace
\* below holds one tree, and the templates are dropped under their own ids.
TemplateSlot(name) == Input(Id(name), {"value"}, Label(name), Undef, "unset", NoBlock, "unset")

TimeTemplate ==
    Block(Id("time"), "condition", ConditionProps("time", Undef, NoParams),
          <<TemplateSlot("chain"), TemplateSlot("minTimestamp")>>)
RpcTemplate ==
    Block(Id("rpc"), "condition", ConditionProps("rpc", W("eth_getBalance"), NoParams),
          <<TemplateSlot("chain"), TemplateSlot("minBalance")>>)
OperatorTemplate(operator, maxInputs) ==
    Block(Id(operator), "operator", OperatorProps(operator, maxInputs),
          <<EmptySlot(IdN("condition", 1))>>)

Templates == {TimeTemplate, RpcTemplate, OperatorTemplate("or", 2)}

\* The operator blocks a workspace starts with.
Roots == {OperatorTemplate("and", UnsetNum), OperatorTemplate("not", 1)}

\* History.  After a removal: where it was, the block removed, whether it was
\* the last connected one of its operator, and what the tree before compiled
\* to; it becomes a "reattach" when the next drop puts the template of the
\* removed block into the slot the removal left.  After a value edit: the
\* call and whether it updated.  After an added parameter: the block before.
CompiledOf(b) == [first |-> blocksToJson(<<b>>), second |-> blocksToJsonBuilder(<<b>>)]

Removed(cp, i) ==
    LET inputs == SubAt(block, cp).inputs
    IN  [what |-> "remove", path |-> cp, slot |-> i, child |-> inputs[i].connected,
         wasLast |-> \A k \in 1..Len(inputs) : inputs[k].connected # NoBlock => k <= i,
         compiled |-> CompiledOf(block)]
ValueEdited(cp, textPath, inputId, text, r) ==
    [what |-> "value", path |-> cp, textPath |-> textPath, inputId |-> inputId,
     text |-> text, updated |-> r.updated]
ParameterAdded == [what |-> "param", prev |-> block]

IsReattach(cp, i, item) ==
    /\ last.what = "remove"
    /\ last.path = cp
    /\ i = Len(SubAt(block, cp).inputs)
    /\ last.child = DroppedBlock(item)

\* The result r of a handler of the component at cp reaches the workspace.
Apply(cp, r) ==
    /\ block' = IF r.updated THEN Propagate(block, cp, r.block) ELSE block
    /\ WithinBounds(block')

Init ==
    /\ block \in Roots
    /\ now = FirstTick
    /\ last = Idle
    /\ blocks = <<>>
    /\ json = [first |-> Pending, second |-> Pending]
    /\ panel = Idle /\ errors = Idle /\ wallet = Idle

\* Time passes: Date.now() grows.
Tick ==
    /\ now < FirstTick + MaxTicks
    /\ now' = now + 1
    /\ UNCHANGED <<panel, errors, wallet, block, last, blocks, json>>

\* A template is dropped on input i of the component at cp, which takes blocks
\* of the item's type.
Drop ==
    \E cp \in Components(block) : \E i \in 1..Len(SubAt(block, cp).inputs) :
    \E item \in Templates :
        LET b == SubAt(block, cp)
            r == handleDrop(b, b.inputs[i].id, item, NoId, now)
        IN  /\ item.type \in b.inputs[i].type
            /\ Apply(cp, r)
            /\ last' = IF IsReattach(cp, i, item) THEN [last EXCEPT !.what = "reattach"]
                       ELSE Idle
            /\ UNCHANGED <<panel, errors, wallet, now, blocks, json>>

\* A template is dropped on input j of the block connected at input i of the
\* component at cp, handled by that component (parentInputId is set).
DropInto ==
    \E cp \in Components(block) : \E i \in 1..Len(SubAt(block, cp).inputs) :
    \E item \in Templates :
        LET b == SubAt(block, cp)
            cb == b.inputs[i].connected
        IN  /\ cb # NoBlock
            /\ \E j \in 1..Len(cb.inputs) :
                LET r == handleDrop(b, cb.inputs[j].id, item, b.inputs[i].id, now)
                IN  /\ item.type \in cb.inputs[j].type
                    /\ Apply(cp, r)
            /\ last' = Idle
            /\ UNCHANGED <<panel, errors, wallet, now, blocks, json>>

\* The remove button of the connected input i of the component at cp.
Remove ==
    \E cp \in Components(block) : \E i \in 1..Len(SubAt(block, cp).inputs) :
        LET b == SubAt(block, cp)
            r == handleRemoveCondition(b, b.inputs[i].id, now)
        IN  /\ TakesBlocks(b.inputs[i])
            /\ b.inputs[i].connected # NoBlock
            /\ Apply(cp, r)
            /\ last' = Removed(cp, i)
            /\ UNCHANGED <<panel, errors, wallet, now, blocks, json>>

Next == Tick \/ Drop \/ DropInto \/ Remove

Spec == Init /\ [][Next]_vars

\* ------------------------------------------------------------------ claims on the editor
EmptySlots(inputs) == {k \in 1..Len(inputs) : inputs[k].connected = NoBlock}

GrowthOK(op) ==
    IF Len(Connected(op.inputs)) = op.props.maxInputs
    THEN EmptySlots(op.inputs) = {}
    ELSE EmptySlots(op.inputs) = {Len(op.inputs)}

\* The step is a drop of a template into the last input of the operator at cp,
\* handled by its own component.
IsAttachLast(cp) ==
    LET b == SubAt(block, cp)
    IN  /\ b.type = "operator"
        /\ \E item \in Templates :
              LET r == handleDrop(b, b.inputs[Len(b.inputs)].id, item, NoId, now)
              IN  r.updated /\ block' = Propagate(block, cp, r.block)

\* The same, handled by the component of the operator above it (parentInputId).
IsAttachLastNested(cp, i) ==
    LET b == SubAt(block, cp)
        cb == b.inputs[i].connected
    IN  /\ cb # NoBlock
        /\ cb.type = "operator"
        /\ \E item \in Templates :
              LET r == handleDrop(b, cb.inputs[Len(cb.inputs)].id, item, b.inputs[i].id, now)
              IN  r.updated /\ block' = Propagate(block, cp, r.block)

\* C3: after an attach into the last slot of an operator block, the operator
\* has exactly one empty slot and it is the last one, unless the number of its
\* connected slots equals maxInputs, and then it has no empty slot.
C3_GrowthInvariant ==
    [][\A cp \in Components(block) :
          /\ IsAttachLast(cp) => GrowthOK(SubAt(block', cp))
          /\ \A i \in 1..Len(SubAt(block, cp).inputs) :
                IsAttachLastNested(cp, i) =>
                    GrowthOK(SubAt(block', cp).inputs[
                        FindIndex(SubAt(block, cp).inputs, SubAt(block, cp).inputs[i].id)
                    ].connected)]_vars

\* C4: in every reachable tree the slot ids of a block are pairwise different.
C4_SlotIdsUnique ==
    \A b \in SubBlocks(block) : \A i, j \in 1..Len(b.inputs) :
        i # j => b.inputs[i].id # b.inputs[j].id

\* The indexes of the inputs that are connected, the one at slot left out.
KeptSlots(inputs, slot) ==
    SelectSeq([k \in 1..Len(inputs) |-> k],
              LAMBDA k : k # slot /\ inputs[k].connected # NoBlock)

DetachRebuilds(before, after, slot, t) ==
    LET kept == KeptSlots(before.inputs, slot)
    IN  /\ Len(after.inputs) = Len(kept) + 1
        /\ \A k \in 1..Len(kept) :
              after.inputs[k] =
                  [before.inputs[kept[k]] EXCEPT !.label = LabelN("Condition", k)]
        /\ after.inputs[Len(kept) + 1] = GrowthSlot(t)
        /\ after = [before EXCEPT !.inputs = after.inputs]

\* C9: a removal leaves the operator with the inputs that were connected, the
\* removed one left out, in their order and with their children, labelled
\* Condition 1..k, followed by exactly one fresh empty slot; the inputs that
\* were empty are gone, and nothing else of the tree changes.
C9_DetachRebuildsInputs ==
    [][(last'.what = "remove" /\ block' # block) =>
          /\ DetachRebuilds(SubAt(block, last'.path), SubAt(block', last'.path),
                            last'.slot, now)
          /\ block' = Propagate(block, last'.path, SubAt(block', last'.path))]_vars

\* The first connected input of an operator was removed and another one, now
\* the first, is left.
C9_DetachedFirstOfTwo ==
    /\ last.what = "remove"
    /\ last.slot = 1
    /\ ~last.wasLast
    /\ Len(Connected(SubAt(block, last.path).inputs)) >= 1

\* C8 as stated: removing a connected child and dropping its template again
\* gives a tree that compiles to the condition the tree before compiled to,
\* the operand at its position.
C8_ReattachRestores ==
    last.what = "reattach" => CompiledOf(block) = last.compiled

\* C8, amended: removing the last connected child of an operator and dropping
\* its template again gives a tree that compiles to the condition the tree
\* before compiled to.
C8_ReattachLastRestores ==
    (last.what = "reattach" /\ last.wasLast) => CompiledOf(block) = last.compiled

\* The second of two different operands was removed and dropped again.
C8_ReattachedSecondOfTwo ==
    /\ last.what = "reattach"
    /\ last.wasLast
    /\ last.path = <<>>
    /\ last.slot = 2
    /\ blocksToJson(<<block>>) # Absent
    /\ blocksToJson(<<block>>).conditionType = "compound"
    /\ Len(blocksToJson(<<block>>).operands) = 2
    /\ blocksToJson(<<block>>).operands[1] # blocksToJson(<<block>>).operands[2]

\* ------------------------------------------------------------------ value edits
\* Workspaces to edit values in: a condition block, and operators with
\* conditions attached by handleDrop, one of them through a nested operator.
TimeAlone == DroppedBlock(TimeTemplate)
AndOfTime ==
    handleDrop(OperatorTemplate("and", UnsetNum), IdN("condition", 1),
               TimeTemplate, NoId, FirstTick).block
AndOfTimeRpc ==
    handleDrop(AndOfTime, IdN("condition", FirstTick), RpcTemplate, NoId, FirstTick + 1).block
AndOfOr ==
    handleDrop(OperatorTemplate("and", UnsetNum), IdN("condition", 1),
               OperatorTemplate("or", 2), NoId, FirstTick).block
AndOfOrOfTime ==
    handleDrop(AndOfOr, IdN("condition", 1), TimeTemplate, IdN("condition", 1), FirstTick).block

ValueRoots == {TimeAlone, AndOfTime, AndOfTimeRpc, AndOfOrOfTime}

EditTexts == {<<"1">>, <<"5">>}
EditIds == {Id("chain"), Id("minTimestamp"), Id("minBalance"), Id("?other")}
PathIds == {IdN("condition", 1), IdN("condition", FirstTick), Id("?other")}
EditPaths == {<<a>> : a \in PathIds} \cup {<<a, b>> : a \in PathIds, b \in PathIds}

InitValues ==
    /\ block \in ValueRoots
    /\ now = FirstTick
    /\ last = Idle
    /\ blocks = <<>>
    /\ json = [first |-> Pending, second |-> Pending]
    /\ panel = Idle /\ errors = Idle /\ wallet = Idle

\* The text field of input i of the condition block at cp changes (lines
\* 399-450): its component calls handleValueChange(input.id, e).
ChangeValue ==
    \E cp \in Components(block) : \E i \in 1..Len(SubAt(block, cp).inputs) :
    \E text \in EditTexts :
        LET b == SubAt(block, cp)
            r == handleValueChange(b, b.inputs[i].id, text, <<>>)
        IN  /\ b.type = "condition"
            /\ ~TakesBlocks(b.inputs[i])
            /\ Apply(cp, r)
            /\ last' = ValueEdited(cp, <<>>, b.inputs[i].id, text, r)
            /\ UNCHANGED <<panel, errors, wallet, now, blocks, json>>

\* handleValueChange(inputId, e, parentPath) of the workspace component, with a
\* path of input ids to follow.
ChangeValueAt ==
    \E parentPath \in EditPaths : \E inputId \in EditIds : \E text \in EditTexts :
        LET r == handleValueChange(block, inputId, text, parentPath)
        IN  /\ Apply(<<>>, r)
            /\ last' = ValueEdited(<<>>, parentPath, inputId, text, r)
            /\ UNCHANGED <<panel, errors, wallet, now, blocks, json>>

NextValues == ChangeValue \/ ChangeValueAt

SpecValues == InitValues /\ [][NextValues]_vars

\* The component a path of input ids leads to from b, as a component path, and
\* whether it leads to one.
RECURSIVE Follow(_, _)
Follow(b, path) ==
    IF path = <<>> THEN [found |-> TRUE, cp |-> <<>>]
    ELSE IF ~HasInput(b.inputs, Head(path)) THEN [found |-> FALSE, cp |-> <<>>]
    ELSE LET p == FindIndex(b.inputs, Head(path))
         IN  IF b.inputs[p].connected = NoBlock THEN [found |-> FALSE, cp |-> <<>>]
             ELSE LET below == Follow(b.inputs[p].connected, Tail(path))
                  IN  [found |-> below.found, cp |-> <<p>> \o below.cp]

\* The slot a call addresses: the component and the index of the input.
Addressed(b, path, inputId) ==
    LET to == Follow(b, path)
    IN  IF to.found /\ HasInput(SubAt(b, to.cp).inputs, inputId)
        THEN [found |-> TRUE, cp |-> to.cp, k |-> FindIndex(SubAt(b, to.cp).inputs, inputId)]
        ELSE [found |-> FALSE, cp |-> <<>>, k |-> 0]

\* A block or a slot without what is below it.
Bare(b) == IF b = NoBlock THEN NoBlock ELSE [b EXCEPT !.inputs = <<>>]
BareSlot(slot) == [slot EXCEPT !.connected = Bare(@)]

\* Tree b1 is tree b0 with the value of the slot k of the component at cp set
\* to text and nothing else changed.
OnlyValueChanged(b0, b1, cp, k, text) ==
    /\ Components(b1) = Components(b0)
    /\ Bare(b1) = Bare(b0)
    /\ \A c \in Components(b0) :
          /\ Len(SubAt(b1, c).inputs) = Len(SubAt(b0, c).inputs)
          /\ \A i \in 1..Len(SubAt(b0, c).inputs) :
                BareSlot(SubAt(b1, c).inputs[i]) =
                    IF c = cp /\ i = k
                    THEN [BareSlot(SubAt(b0, c).inputs[i]) EXCEPT !.value = text]
                    ELSE BareSlot(SubAt(b0, c).inputs[i])

\* C10: a value edit changes the value of the slot it addresses and nothing
\* else in the tree; when its path and slot id lead to no slot, no update is
\* made.
C10_SetValueFrame ==
    [][last'.what = "value" =>
          LET at == Addressed(SubAt(block, last'.path), last'.textPath, last'.inputId)
          IN  IF at.found
              THEN /\ last'.updated
                   /\ OnlyValueChanged(block, block', last'.path \o at.cp, at.k, last'.text)
              ELSE /\ ~last'.updated
                   /\ block' = block]_vars

\* A value was set through a path while another slot of the tree holds another
\* text.
C10_ChangedThroughPath ==
    /\ last.what = "value"
    /\ last.updated
    /\ last.textPath # <<>>
    /\ \E c \in Components(block) : \E i \in 1..Len(SubAt(block, c).inputs) :
          /\ SubAt(block, c).inputs[i].value \in EditTexts
          /\ SubAt(block, c).inputs[i].value # last.text

\* ------------------------------------------------------------------ parameters
\* A contract-call block with the parameter slots param_0..param_(n-1).
ParamSlot(k) ==
    Input(IdN("param", k), {"value"}, LabelN("Parameter", k + 1), Undef, "unset", NoBlock, "text")

CallBlock(n, parameterCount, chain, mslot) ==
    [Block(Id("contract"), "condition", ConditionProps("contract", Undef, NoParams),
           <<ValueSlot("contractAddress", Empty, "unset"), ValueSlot("chain", chain, "unset"),
             ValueSlot("method", mslot, "unset")>>
           \o [k \in 1..n |-> ParamSlot(k - 1)]
           \o <<ValueSlot("expectedValue", Empty, "unset")>>)
     EXCEPT !.props.parameterCount = parameterCount]

\* As many parameter slots as parameterCount says, or parameterCount unset.
ParamRoots ==
    {CallBlock(n, pc, chain, mslot) :
        n \in 0..MaxParams, pc \in {UnsetNum} \cup (0..MaxParams),
        chain \in ChainTexts, mslot \in {Empty, W("balanceOf"), W("ownerOf")}}

ParamSlots(b) == {k \in 1..Len(b.inputs) : b.inputs[k].id.base = "param"}

InitParams ==
    /\ block \in {b \in ParamRoots :
                    b.props.parameterCount \in {UnsetNum, Cardinality(ParamSlots(b))}}
    /\ now = FirstTick
    /\ last = Idle
    /\ blocks = <<>>
    /\ json = [first |-> Pending, second |-> Pending]
    /\ panel = Idle /\ errors = Idle /\ wallet = Idle

\* The add-parameter button is rendered next to the input param_(count - 1),
\* count being parameterCount ?? 1 (lines 454-455).
ShowsAddParameter(b) ==
    LET count == IF b.props.parameterCount = UnsetNum THEN 1 ELSE b.props.parameterCount
    IN  /\ b.type = "condition"
        /\ count >= 1
        /\ HasInput(b.inputs, IdN("param", count - 1))

\* The add-parameter button is clicked.
AddParameter ==
    /\ ShowsAddParameter(block)
    /\ Cardinality(ParamSlots(block)) <= MaxParams
    /\ block' = handleAddParameter(block).block
    /\ last' = ParameterAdded
    /\ UNCHANGED <<panel, errors, wallet, now, blocks, json>>

NextParams == AddParameter

SpecParams == InitParams /\ [][NextParams]_vars

\* The parameter slots are param_0, param_1, ... in this order.
ParamsContiguous(b) ==
    LET params == SelectSeq(b.inputs, LAMBDA input : input.id.base = "param")
    IN  \A k \in 1..Len(params) : params[k].id = IdN("param", k - 1)

\* Slot k of b is the last parameter slot, or b has none and k is its last slot.
IsLastParam(b, k) ==
    IF ParamSlots(b) = {} THEN k = Len(b.inputs)
    ELSE k \in ParamSlots(b) /\ \A j \in ParamSlots(b) : j <= k

\* C5: after added parameters the parameter slots are numbered from 0 without
\* a gap and parameterCount is their number; a call puts the slot with the
\* number of the parameter slots there were behind the last of them (at the
\* end without one) and makes parameterCount one more.
C5_ParametersContiguous ==
    last.what = "param" =>
        LET old == Cardinality(ParamSlots(last.prev))
        IN  /\ ParamsContiguous(block)
            /\ block.props.parameterCount = Cardinality(ParamSlots(block))
            /\ block.props.parameterCount = old + 1
            /\ \E k \in 0..Len(last.prev.inputs) :
                  /\ k = 0 \/ IsLastParam(last.prev, k)
                  /\ k = 0 => Len(last.prev.inputs) = 0
                  /\ block.inputs = SubSeq(last.prev.inputs, 1, k) \o <<ParamSlot(old)>>
                                    \o SubSeq(last.prev.inputs, k + 1, Len(last.prev.inputs))

\* ------------------------------------------------------------------ more claims on the compilers
IsLeaf(c) == c.conditionType \in {"time", "rpc", "contract"}

\* C12: every time, rpc and contract condition emitted, at any depth, has a
\* chain of {1, 137, 80002, 11155111}, whatever the chain input holds.
C12_ChainsAreValid ==
    Compiled =>
        \A c \in SubConditions(json.first) \cup SubConditions(json.second) :
            IsLeaf(c) => c.chain \in ValidChains

\* A block whose chain input holds 999 was compiled to a condition.
C12_CompiledInvalidChain ==
    /\ Compiled
    /\ \E b \in AllBlocks :
          /\ b.type = "condition"
          /\ InputValue(b.inputs, Id("chain")) = <<"9", "9", "9">>
          /\ blockToJson(b) \in SubConditions(json.first)
          /\ IsLeaf(blockToJson(b))

IsTimeBlock(b) == b.type = "condition" /\ b.props.conditionType = "time"

\* The TimeCondition C13 describes for a time block.
ExpectedTime(b) ==
    LET chain == parseInt(InputValue(b.inputs, Id("chain")))
        ts == InputValue(b.inputs, Id("minTimestamp"))
        cmp == InputComparator(b.inputs, Id("minTimestamp"))
    IN  [conditionType |-> "time",
         chain |-> IF chain.k = "number" /\ chain.n \in ValidChains THEN chain.n ELSE Sepolia,
         method |-> W("blocktime"),
         returnValueTest |->
            IF ts \in {Empty, Undef} THEN [comparator |-> ">=", value |-> Num(0)]
            ELSE [comparator |-> IF cmp = "unset" THEN ">=" ELSE cmp, value |-> parseInt(ts)]]

\* C13: a time block always compiles to a TimeCondition with method blocktime,
\* the chain of its chain input or Sepolia when that is empty or invalid, and
\* the test of its minTimestamp input with its comparator (">=" when unset),
\* or {">=", 0} when that input is empty.
C13_TimeBlockCompiles ==
    Compiled =>
        \A b \in AllBlocks : IsTimeBlock(b) =>
            blockToJson(b) = ExpectedTime(b) /\ processBlock(b) = ExpectedTime(b)

\* The conditions of a list in their order, absent ones left out.
RECURSIVE Kept(_)
Kept(conds) ==
    IF conds = <<>> THEN <<>>
    ELSE IF Head(conds).conditionType = "absent" THEN Kept(Tail(conds))
    ELSE <<Head(conds)>> \o Kept(Tail(conds))

ExpectedCompound(b, operands) ==
    [conditionType |-> "compound",
     operator |-> IF b.props.operator = "unset" THEN "and" ELSE b.props.operator,
     operands |-> Kept(operands)]

\* C14: an operator block with an operand that compiles to a condition
\* compiles to the compound of properties.operator ("and" when unset) and of
\* the conditions of its connected slots in slot order, absent ones left out.
C14_OperatorCompiles ==
    Compiled =>
        \A b \in AllBlocks : b.type = "operator" =>
            /\ Kept(OperandsFirst(b)) # <<>> =>
                  blockToJson(b) = ExpectedCompound(b, OperandsFirst(b))
            /\ Kept(OperandsSecond(b)) # <<>> =>
                  processBlock(b) = ExpectedCompound(b, OperandsSecond(b))

\* An operator was compiled, by both compilers, that has an operand compiling
\* to a condition before one compiling to absent.
C14_CompiledWithAbsentOperand ==
    /\ Compiled
    /\ Len(blocks) = 1
    /\ blocks[1].type = "operator"
    /\ json.first = blockToJson(blocks[1])
    /\ json.second = processBlock(blocks[1])
    /\ Len(OperandsFirst(blocks[1])) = 2
    /\ json.first.conditionType = "compound"
    /\ Len(json.first.operands) = 1
    /\ Len(OperandsSecond(blocks[1])) = 2
    /\ OperandsSecond(blocks[1])[1] # Absent
    /\ OperandsSecond(blocks[1])[2] = Absent

IsContractBlock(b) == b.type = "condition" /\ b.props.conditionType = "contract"

\* The returnValueTest C15 describes for a contract block and the emitted c.
ExpectedTestHolds(b, c) ==
    LET amount == InputValue(b.inputs, Id("tokenAmount"))
        cmp == InputComparator(b.inputs, Id("tokenAmount"))
    IN  IF amount \notin {Empty, Undef}
        THEN c.returnValueTest =
                [comparator |-> IF cmp = "unset" THEN ">=" ELSE cmp, value |-> parseInt(amount)]
        ELSE b.props.returnValueTest.set =>
                c.returnValueTest = [comparator |-> b.props.returnValueTest.comparator,
                                     value |-> b.props.returnValueTest.value]

\* C15: the returnValueTest emitted for a contract block is that of its
\* tokenAmount input (integer value, its comparator or ">=") when the input has
\* a value, and else properties.returnValueTest when that is set.
C15_ContractTest ==
    Compiled =>
        \A b \in AllBlocks : IsContractBlock(b) =>
            /\ blockToJson(b).conditionType = "contract" =>
                  ExpectedTestHolds(b, blockToJson(b))
            /\ processBlock(b).conditionType = "contract" =>
                  ExpectedTestHolds(b, processBlock(b))

\* The blocks of the collection of kind condition or operator that no other
\* block of the collection has connected.
RootIndexes ==
    {k \in 1..Len(blocks) :
        /\ blocks[k].type \in {"condition", "operator"}
        /\ ~ \E j \in (1..Len(blocks)) \ {k} : \E i \in 1..Len(blocks[j].inputs) :
              /\ blocks[j].inputs[i].connected # NoBlock
              /\ blocks[j].inputs[i].connected.id = blocks[k].id}

\* C16: what compile returns is the condition of a condition or operator block
\* of the collection that no other block has connected, and absent when there
\* is no such block, in particular for the empty collection.
C16_RootSelection ==
    Compiled =>
        /\ RootIndexes = {} => json.first = Absent /\ json.second = Absent
        /\ json.first # Absent => \E k \in RootIndexes : json.first = blockToJson(blocks[k])
        /\ json.second # Absent => \E k \in RootIndexes : json.second = processBlock(blocks[k])

JsonFields == {Id("parameters"), Id("functionAbi")}

\* Texts entered that are no JSON.
NotJson == {<<"[", "a">>, <<"[", ",", "]">>}

\* The block with the inputs named in ids holding nothing.
Cleared(b, ids) ==
    [b EXCEPT !.inputs = [k \in 1..Len(b.inputs) |->
        IF b.inputs[k].id \in ids THEN [b.inputs[k] EXCEPT !.value = Empty] ELSE b.inputs[k]]]

\* The parameters and functionAbi inputs of b that hold text that is no JSON.
BadJsonFields(b) ==
    {b.inputs[k].id : k \in {i \in 1..Len(b.inputs) :
        b.inputs[i].id \in JsonFields /\ b.inputs[i].value \in NotJson}}

\* C19: text that is no JSON in a parameters or functionAbi input does not
\* stop the compilation: the block compiles to what it compiles to with that
\* input empty.
C19_BadJsonIsLeftUnset ==
    Compiled =>
        \A b \in AllBlocks : BadJsonFields(b) # {} =>
            /\ processBlock(b) = processBlock(Cleared(b, BadJsonFields(b)))
            /\ blockToJson(b) = blockToJson(Cleared(b, BadJsonFields(b)))
            /\ Len(blocks) = 1 /\ blocks[1] = b =>
                  json.second = processBlock(Cleared(b, BadJsonFields(b)))

\* A block whose parameters input holds text that is no JSON beside a
\* functionAbi input that parses was compiled to a contract condition.
C19_CompiledBadParameters ==
    /\ Compiled
    /\ Len(blocks) = 1
    /\ BadJsonFields(blocks[1]) = {Id("parameters")}
    /\ InputValue(blocks[1].inputs, Id("functionAbi")) = <<"[", "a", "]">>
    /\ json.second.conditionType = "contract"
    /\ json.second.parameters = <<>>

\* ------------------------------------------------------------------ comparators
\* A condition block of the workspace, its comparators as the templates have
\* them; one is chosen in a ComparatorSelect, and the block is compiled.
SelectComparators == {">=", ">", "=="}

\* needsComparator of the render: the inputs shown with a ComparatorSelect.
NeedsComparator(input) ==
    input.id \in {Id("minBalance"), Id("minTimestamp"), Id("tokenAmount"), Id("tokenId"),
                  Id("expectedValue")}

InitComparator ==
    /\ blocks \in {<<b>> : b \in {c \in TimeBlocks \cup RpcBlocks \cup ContractBlocks :
                                    \A k \in 1..Len(c.inputs) : c.inputs[k].comparator = "unset"}}
    /\ json = [first |-> Pending, second |-> Pending]
    /\ panel = Idle /\ errors = Idle /\ wallet = Idle
    /\ block = NoBlock
    /\ now = FirstTick
    /\ last = Idle

\* onChange of the ComparatorSelect of an input of the block.
SetComparator ==
    /\ json = [first |-> Pending, second |-> Pending]
    /\ \E k \in 1..Len(blocks[1].inputs), c \in SelectComparators :
          LET r == handleComparatorChange(blocks[1], blocks[1].inputs[k].id, c)
          IN  /\ NeedsComparator(blocks[1].inputs[k])
              /\ r.updated
              /\ blocks' = <<r.block>>
              /\ last' = [what |-> "comparator", slot |-> blocks[1].inputs[k].id,
                          comparator |-> c]
    /\ UNCHANGED <<panel, errors, wallet, json, block, now>>

NextComparator == SetComparator \/ Compile \/ CompileBuilder

SpecComparator == InitComparator /\ [][NextComparator]_vars

NumericTests == {Id("minTimestamp"), Id("minBalance"), Id("tokenAmount")}

\* The comparator C20 has emitted for the block: the one last chosen for its
\* numeric-test input, ">=" when none was.
ExpectedComparator(b) ==
    LET k == CHOOSE i \in 1..Len(b.inputs) : b.inputs[i].id \in NumericTests
    IN  IF b.inputs[k].comparator = "unset" THEN ">=" ELSE b.inputs[k].comparator

HoldsNumber(b) ==
    \E i \in 1..Len(b.inputs) :
        /\ b.inputs[i].id \in NumericTests
        /\ ~isNaN(parseInt(b.inputs[i].value))

\* C20: once a comparator c is chosen for a numeric-test input that holds a
\* number, the condition compiled has returnValueTest.comparator = c, and ">="
\* when none was ever chosen.
C20_ComparatorIsEmitted ==
    (Compiled /\ HoldsNumber(blocks[1])) =>
        /\ last.what = "comparator" =>
              /\ last.slot \in NumericTests
              /\ ExpectedComparator(blocks[1]) = last.comparator
        /\ json.first # Absent =>
              json.first.returnValueTest.comparator = ExpectedComparator(blocks[1])
        /\ json.second # Absent =>
              json.second.returnValueTest.comparator = ExpectedComparator(blocks[1])

\* ------------------------------------------------------------------ more claims on the editor
\* The connected inputs of b are labelled Condition 1, Condition 2, ... in order.
LabelledInOrder(b) ==
    LET conn == Connected(b.inputs)
    IN  \A k \in 1..Len(conn) : conn[k].label = LabelN("Condition", k)

\* The connected inputs of b are labelled Condition 1..k, each number once.
LabelledOnce(b) ==
    LET conn == Connected(b.inputs)
    IN  /\ \A k \in 1..Len(conn) :
              conn[k].label.text = "Condition" /\ conn[k].label.n \in 1..Len(conn)
        /\ \A j, k \in 1..Len(conn) : conn[j].label = conn[k].label => j = k

\* C18: in the trees that attaching builds, the connected inputs of every
\* operator, top level or nested, are labelled Condition 1..k, each number once.
C18_LabelsNumbered ==
    \A b \in SubBlocks(block) : b.type = "operator" => LabelledOnce(b)

\* ------------------------------------------------------------------ values and children
\* The editor with value blocks and text fields: blocks are attached and
\* detached, value blocks are dropped on the inputs of condition blocks, and
\* text is typed into them.
ValueItems == {[Block(Id("value"), "value", NoProps, <<>>) EXCEPT !.value = <<"1">>]}

\* A value block is dropped on input i of the condition block at cp, handled
\* by its own component or, with parentInputId, by the one of its parent.
DropValueBlock ==
    \E cp \in Components(block) : \E i \in 1..Len(SubAt(block, cp).inputs) :
    \E item \in ValueItems :
        LET b == SubAt(block, cp)
        IN  /\ b.type = "condition"
            /\ item.type \in b.inputs[i].type
            /\ \/ Apply(cp, handleDrop(b, b.inputs[i].id, item, NoId, now))
               \/ /\ cp # <<>>
                  /\ LET up == SubSeq(cp, 1, Len(cp) - 1)
                         parent == SubAt(block, up)
                     IN  Apply(up, handleDrop(parent, b.inputs[i].id, item,
                                              parent.inputs[cp[Len(cp)]].id, now))
            /\ last' = Idle
            /\ UNCHANGED <<panel, errors, wallet, now, blocks, json>>

\* The text field of input i of the condition block at cp is typed into or
\* emptied.
TypeValue ==
    \E cp \in Components(block) : \E i \in 1..Len(SubAt(block, cp).inputs) :
    \E text \in {Empty, <<"5">>} :
        LET b == SubAt(block, cp)
        IN  /\ b.type = "condition"
            /\ ~TakesBlocks(b.inputs[i])
            /\ Apply(cp, handleValueChange(b, b.inputs[i].id, text, <<>>))
            /\ last' = Idle
            /\ UNCHANGED <<panel, errors, wallet, now, blocks, json>>

NextSlots == Tick \/ Drop \/ DropInto \/ Remove \/ DropValueBlock \/ TypeValue

SpecSlots == Init /\ [][NextSlots]_vars

At(h, ref) == SubAt(h[ref.at], ref.path)

\* A variant of Clone that returns the object itself, to test C11 against.
CloneSame(h, ref) == [heap |-> h, ref |-> ref]

\* JSON.parse(JSON.stringify(block)): a new object with the tree copied.
Clone(h, ref) == [heap |-> Append(h, At(h, ref)), ref |-> [at |-> Len(h) + 1, path |-> <<>>]]

\* The assignments of a handler to the object at ref leave it as `value`.
Write(h, ref, value) == [h EXCEPT ![ref.at] = Propagate(@, ref.path, value)]

\* onBlockUpdate(updatedBlock) of the component at cp of the tree at root: each
\* parent copies its block, connects the updated block in the copy and reports
\* the copy (lines 367-374); the workspace takes what the root reports.
RECURSIVE Report(_, _, _, _)
Report(h, root, cp, updated) ==
    IF cp = <<>> THEN [heap |-> h, ref |-> updated]
    ELSE LET up == SubSeq(cp, 1, Len(cp) - 1)
             parent == At(h, [at |-> root, path |-> up])
             newBlock == Clone(h, [at |-> root, path |-> up])
             k == FindIndex(parent.inputs, parent.inputs[cp[Len(cp)]].id)
         IN  Report(Write(newBlock.heap, newBlock.ref,
                          [At(newBlock.heap, newBlock.ref)
                              EXCEPT !.inputs[k].connected = At(newBlock.heap, updated)]),
                    root, up, newBlock.ref)

\* A handler of the component at cp copies its block, leaves the copy as r
\* says and reports it.
Operate(what, cp, r) ==
    LET updatedBlock == Clone(blocks, [at |-> last.root, path |-> cp])
        reported == Report(Write(updatedBlock.heap, updatedBlock.ref, r.block),
                           last.root, cp, updatedBlock.ref)
    IN  /\ r.updated
        /\ Len(reported.heap) <= MaxObjects
        /\ WithinBounds(At(reported.heap, reported.ref))
        /\ blocks' = reported.heap
        /\ block' = blocks[last.root]
        /\ last' = [what |-> what, path |-> cp, given |-> last.root, root |-> reported.ref.at]
        /\ UNCHANGED <<panel, errors, wallet, now, json>>

InitObjects ==
    /\ blocks \in {<<b>> : b \in ValueRoots \cup
                        {AndOfOr, [CallBlock(1, 1, Empty, Empty) EXCEPT !.inputs = <<ParamSlot(0)>>]}}
    /\ block = blocks[1]
    /\ last = [what |-> "none", path |-> <<>>, given |-> 1, root |-> 1]
    /\ now = FirstTick
    /\ json = [first |-> Pending, second |-> Pending]
    /\ panel = Idle /\ errors = Idle /\ wallet = Idle

\* attach: a template is dropped on an input of the component at cp, or on an
\* input of the block connected there (parentInputId is set).
Attach ==
    \E cp \in Components(blocks[last.root]) : \E item \in Templates :
        LET b == At(blocks, [at |-> last.root, path |-> cp])
        IN  \E i \in 1..Len(b.inputs) :
              \/ /\ item.type \in b.inputs[i].type
                 /\ Operate("attach", cp, handleDrop(b, b.inputs[i].id, item, NoId, now))
              \/ /\ b.inputs[i].connected # NoBlock
                 /\ \E j \in 1..Len(b.inputs[i].connected.inputs) :
                      /\ item.type \in b.inputs[i].connected.inputs[j].type
                      /\ Operate("attach", cp,
                                 handleDrop(b, b.inputs[i].connected.inputs[j].id, item,
                                            b.inputs[i].id, now))

\* detach: the remove button of a connected input of the component at cp.
Detach ==
    \E cp \in Components(blocks[last.root]) :
        LET b == At(blocks, [at |-> last.root, path |-> cp])
        IN  \E i \in 1..Len(b.inputs) :
              /\ TakesBlocks(b.inputs[i])
              /\ b.inputs[i].connected # NoBlock
              /\ Operate("detach", cp, handleRemoveCondition(b, b.inputs[i].id, now))

\* setValue: text is typed into an input of the condition block at cp.
SetValue ==
    \E cp \in Components(blocks[last.root]) : \E text \in EditTexts :
        LET b == At(blocks, [at |-> last.root, path |-> cp])
        IN  \E i \in 1..Len(b.inputs) :
              /\ b.type = "condition"
              /\ ~TakesBlocks(b.inputs[i])
              /\ Operate("value", cp, handleValueChange(b, b.inputs[i].id, text, <<>>))

\* setComparator: a comparator is chosen for an input of the condition block at cp.
ChooseComparator ==
    \E cp \in Components(blocks[last.root]) : \E c \in SelectComparators :
        LET b == At(blocks, [at |-> last.root, path |-> cp])
        IN  \E i \in 1..Len(b.inputs) :
              /\ b.type = "condition"
              /\ NeedsComparator(b.inputs[i])
              /\ Operate("comparator", cp, handleComparatorChange(b, b.inputs[i].id, c))

\* addParameterSlot: the add-parameter button of the condition block at cp.
AddSlot ==
    \E cp \in Components(blocks[last.root]) :
        LET b == At(blocks, [at |-> last.root, path |-> cp])
        IN  /\ ShowsAddParameter(b)
            /\ Cardinality(ParamSlots(b)) <= MaxParams
            /\ Operate("parameter", cp, handleAddParameter(b))

NextObjects == Attach \/ Detach \/ SetValue \/ ChooseComparator \/ AddSlot

SpecObjects == InitObjects /\ [][NextObjects]_vars

\* C11: an operation leaves the tree it was given as it was and reports a new
\* one: the tree given is still what it was when it was given, and the
\* workspace shows another object.
C11_GivenTreeUnchanged ==
    last.what # "none" => blocks[last.given] = block /\ last.root # last.given

\* A block below the root was given new text, and the root reported is a new
\* tree that differs from the one given.
C11_NestedUpdateReported ==
    /\ last.what = "value"
    /\ last.path # <<>>
    /\ last.given < last.root
    /\ blocks[last.root] # blocks[last.given]
    /\ blocks[last.given] = block

\* ------------------------------------------------------------------ claims on several top-level blocks
\* The blocks of the collection that no other block has connected, in order.
TopLevel ==
    SelectSeq(blocks, LAMBDA b :
        ~ \E j \in 1..Len(blocks) : \E i \in 1..Len(blocks[j].inputs) :
              /\ blocks[j] # b
              /\ blocks[j].inputs[i].connected # NoBlock
              /\ blocks[j].inputs[i].connected.id = b.id)

\* What C24 has compile return for the compiled top-level blocks.
CombinedWithAnd(conds) ==
    IF Kept(conds) = <<>> THEN Absent
    ELSE IF Len(Kept(conds)) = 1 THEN Kept(conds)[1]
    ELSE [conditionType |-> "compound", operator |-> "and", operands |-> Kept(conds)]

\* C24: with more than one top-level block, compile returns the AND of the
\* compiled top-level blocks in collection order, the one condition when only
\* one of them compiles to a condition, and absent when none does.
C24_TopLevelCombined ==
    (Compiled /\ Len(TopLevel) > 1) =>
        /\ json.first = CombinedWithAnd([k \in 1..Len(TopLevel) |-> blockToJson(TopLevel[k])])
        /\ json.second = CombinedWithAnd([k \in 1..Len(TopLevel) |-> processBlock(TopLevel[k])])

\* C26: no condition emitted, at any depth, carries NaN as the value of its
\* returnValueTest.
C26_NoNaNEmitted ==
    Compiled =>
        \A c \in SubConditions(json.first) \cup SubConditions(json.second) :
            IsLeaf(c) => c.returnValueTest.value # NaN

\* ------------------------------------------------------------------ EncryptionPanel
\* An Error thrown, with its message.
Thrown(message) == [conditionType |-> "error", message |-> message]
IsThrown(v) == "conditionType" \in DOMAIN v /\ v.conditionType = "error"

InvalidChainId == W("Invalid chain ID. Must be one of: 137, 80002, 11155111, 1")
Unsupported(conditionType) == <<"Unsupported condition type: ", conditionType>>

\* A variant of getValidChainId whose list lacks chain 1, to test C25 against.
getValidChainIdOfThree(chain) ==
    IF chain \in {137, 80002, Sepolia} THEN Num(chain) ELSE Thrown(InvalidChainId)

\* getValidChainId(chain): validChains.find(id => id === chain), thrown when
\* nothing (or 0) is found.
getValidChainId(chain) ==
    LET validChains == <<137, 80002, Sepolia, 1>>
        found == {k \in 1..Len(validChains) : validChains[k] = chain}
    IN  IF found # {} /\ chain # 0 THEN Num(chain) ELSE Thrown(InvalidChainId)

\* A variant of createCondition that takes the operands of a compound as they
\* are, to test C21 against.
createConditionFlat(conditionData) ==
    IF conditionData.conditionType = "compound" THEN conditionData
    ELSE IF conditionData.conditionType \in {"rpc", "time", "contract"}
    THEN IF getValidChainId(conditionData.chain).k = "number"
         THEN conditionData ELSE getValidChainId(conditionData.chain)
    ELSE Thrown(Unsupported(conditionData.conditionType))

\* createCondition(conditionData): the taco condition built, or the Error
\* thrown.  The constructors of the taco library keep what they are given.
RECURSIVE createCondition(_)
createCondition(conditionData) ==
    IF /\ conditionData.conditionType = "rpc"
       /\ conditionData.method = W("eth_getBalance")
    THEN LET chain == getValidChainId(conditionData.chain)
         IN  IF IsThrown(chain) THEN chain
             ELSE RpcCondition(chain.n, conditionData.method, UserAddressLatest,
                               conditionData.returnValueTest)
    ELSE IF conditionData.conditionType = "time"
    THEN LET validChain == getValidChainId(conditionData.chain)
         IN  IF IsThrown(validChain) THEN validChain
             ELSE TimeCondition(validChain.n, conditionData.returnValueTest)
    ELSE IF conditionData.conditionType = "contract"
    THEN LET chain == getValidChainId(conditionData.chain)
         IN  IF IsThrown(chain) THEN chain
             ELSE ContractCondition(chain.n, conditionData.contractAddress,
                                    conditionData.method, conditionData.parameters,
                                    conditionData.standardContractType,
                                    conditionData.returnValueTest)
    ELSE IF conditionData.conditionType = "compound"
    THEN LET operands == [k \in 1..Len(conditionData.operands) |->
                            createCondition(conditionData.operands[k])]
             thrown == {k \in 1..Len(operands) : operands[k].conditionType = "error"}
         IN  IF thrown # {}
             THEN operands[CHOOSE k \in thrown : \A j \in thrown : k <= j]
             ELSE CompoundCondition(conditionData.operator, operands)
    ELSE Thrown(Unsupported(conditionData.conditionType))

\* C25: every condition that a compiler emits is accepted by createCondition:
\* none of its nodes, at any depth, has createCondition throw.
C25_CompiledIsAccepted ==
    Compiled =>
        /\ json.first # Absent => createCondition(json.first).conditionType # "error"
        /\ json.second # Absent => createCondition(json.second).conditionType # "error"

\* A compound that holds a compound, with a node of chain 1, was emitted by
\* both compilers, and createCondition built it.
C25_NestedCompoundAccepted ==
    /\ Compiled
    /\ json.first.conditionType = "compound"
    /\ json.second.conditionType = "compound"
    /\ \E k \in 1..Len(json.first.operands) :
          json.first.operands[k].conditionType = "compound"
    /\ \E c \in SubConditions(json.first) : IsLeaf(c) /\ c.chain = 1
    /\ createCondition(json.first).conditionType = "compound"
    /\ createCondition(json.second).conditionType = "compound"

----------------------------------------------------------------------------
\* EncryptionPanel: handleEncrypt, from the click to the end of the attempt.
\* panel holds the props and state of the component (condition, message),
\* whether window.ethereum exists, where the asynchronous handler stands (pc)
\* and what it has called so far.

MaxNesting == 2

DocumentChains == {1, 137, 999, 0}

DocumentLeaves ==
    UNION {{TimeCondition(c, ReturnValueTest(">=", Num(0))),
            RpcCondition(c, W("eth_getBalance"), UserAddressLatest,
                         ReturnValueTest(">", Num(0))),
            ContractCondition(c, W("0xabc"), W("balanceOf"), UserAddress, "ERC20",
                              ReturnValueTest(">", Num(0)))} : c \in DocumentChains}

\* The condition documents of at most n compounds around a leaf.
RECURSIVE Documents(_)
Documents(n) ==
    IF n = 0 THEN DocumentLeaves
    ELSE LET inner == Documents(n - 1)
             first == {TimeCondition(1, ReturnValueTest(">=", Num(0))),
                       RpcCondition(999, W("eth_getBalance"), UserAddressLatest,
                                    ReturnValueTest(">", Num(0)))}
         IN  inner
             \cup {CompoundCondition(op, <<a, b>>) :
                     op \in {"and", "or"}, a \in first, b \in inner}
             \cup {CompoundCondition("and", <<b, TimeCondition(137, ReturnValueTest(">=", Num(0)))>>) :
                     b \in inner}

NotStarted(condition, message, ethereum) ==
    [condition |-> condition, message |-> message, ethereum |-> ethereum,
     pc |-> "idle", isEncrypting |-> FALSE, created |-> FALSE,
     encryptCalled |-> FALSE, kitGenerated |-> FALSE, reported |-> Undef]

InitEncrypt ==
    /\ panel \in {NotStarted(c, m, e) :
                    c \in {Absent} \cup Documents(MaxNesting),
                    m \in {Empty, W("hello")}, e \in BOOLEAN}
    /\ errors = Idle /\ wallet = Idle
    /\ blocks = <<>>
    /\ json = [first |-> Pending, second |-> Pending]
    /\ block = NoBlock
    /\ now = FirstTick
    /\ last = Idle

\* catch and finally of handleEncrypt: the message goes to onError and
\* isEncrypting is reset.
Caught(message) ==
    [panel EXCEPT !.pc = "failed", !.reported = message, !.isEncrypting = FALSE]

\* What a rejected promise of the provider or of encrypt gives onError: the
\* message of an Error, or the fixed text for any other thrown value.
RejectionMessages == {W("User rejected the request."), W("Failed to encrypt message")}

\* handleEncrypt up to its first await.
handleEncrypt ==
    /\ panel.pc = "idle"
    /\ panel' = IF panel.condition = Absent \/ panel.message = Empty
                THEN [panel EXCEPT !.pc = "returned"]
                ELSE IF ~panel.ethereum
                THEN Caught(W("MetaMask is not installed"))
                ELSE [panel EXCEPT !.pc = "accounts", !.isEncrypting = TRUE]
    /\ UNCHANGED <<errors, wallet, block, now, last, blocks, json>>

\* provider.send("eth_requestAccounts") settles; with accounts, the handler
\* runs on through createCondition to the call of encrypt.
requestAccountsSettles ==
    /\ panel.pc = "accounts"
    /\ \/ \E message \in RejectionMessages : panel' = Caught(message)
       \/ panel' = Caught(W("No accounts found"))
       \/ LET tacoCondition == createCondition(panel.condition)
          IN  panel' = IF IsThrown(tacoCondition)
                       THEN [Caught(tacoCondition.message) EXCEPT !.created = TRUE]
                       ELSE [panel EXCEPT !.pc = "encrypting", !.created = TRUE,
                                          !.encryptCalled = TRUE]
    /\ UNCHANGED <<errors, wallet, block, now, last, blocks, json>>

\* encrypt settles: the message kit is handed to onMessageKitGenerated, or
\* the rejection is caught.
encryptSettles ==
    /\ panel.pc = "encrypting"
    /\ \/ panel' = [panel EXCEPT !.pc = "done", !.kitGenerated = TRUE,
                                 !.isEncrypting = FALSE]
       \/ \E message \in RejectionMessages : panel' = Caught(message)
    /\ UNCHANGED <<errors, wallet, block, now, last, blocks, json>>

NextEncrypt == handleEncrypt \/ requestAccountsSettles \/ encryptSettles

SpecEncrypt == InitEncrypt /\ [][NextEncrypt]_vars

HoldsInvalidChain(condition) ==
    \E c \in SubConditions(condition) : IsLeaf(c) /\ c.chain \notin ValidChains

\* C21: createCondition throws the error that lists the valid chain ids for
\* every condition document with a time, rpc or contract node, at any depth,
\* whose chain is none of 1, 137, 80002, 11155111; in handleEncrypt, encrypt
\* is then never called and onMessageKitGenerated never invoked, and once
\* createCondition has run that error is what onError was given.
C21_InvalidChainRejected ==
    (panel.condition # Absent /\ HoldsInvalidChain(panel.condition)) =>
        /\ createCondition(panel.condition) = Thrown(InvalidChainId)
        /\ ~panel.encryptCalled
        /\ ~panel.kitGenerated
        /\ panel.pc \notin {"encrypting", "done"}
        /\ panel.created => (panel.pc = "failed" /\ panel.reported = InvalidChainId)

\* createCondition ran on a document whose invalid chain sits in an operand of
\* an operand, and handleEncrypt gave the error to onError.
C21_NestedInvalidChainReported ==
    /\ panel.condition # Absent
    /\ panel.condition.conditionType = "compound"
    /\ IsLeaf(panel.condition.operands[1])
    /\ panel.condition.operands[1].chain \in ValidChains
    /\ panel.condition.operands[2].conditionType = "compound"
    /\ \A k \in 1..2 : IsLeaf(panel.condition.operands[2].operands[k])
    /\ panel.condition.operands[2].operands[1].chain \in ValidChains
    /\ panel.condition.operands[2].operands[2].chain = 999
    /\ panel.created
    /\ panel.pc = "failed"
    /\ panel.reported = InvalidChainId
    /\ ~panel.isEncrypting

----------------------------------------------------------------------------
\* TacoPlayground: the displayed error and the timeouts that clear it.
\* errors.error is the error state (Undef for null), errors.timers the due
\* times of the pending timeouts in the order they were set, errors.clock the
\* time in milliseconds.  errors.reportedAt remembers when the displayed
\* error was given to handleError; the component keeps no such field.

AutoClearDelay == 10000
Step == 2500
MaxClock == 30000
MaxReports == 3

ErrorMessages == {W("No accounts found"), InvalidChainId}

InitErrors ==
    /\ errors = [error |-> Undef, reportedAt |-> 0, timers |-> <<>>, clock |-> 0,
                 reports |-> 0]
    /\ panel = Idle /\ wallet = Idle
    /\ blocks = <<>>
    /\ json = [first |-> Pending, second |-> Pending]
    /\ block = NoBlock
    /\ now = FirstTick
    /\ last = Idle

\* handleError: show the error and set a timeout; no timeout set before is
\* cancelled.
handleError ==
    /\ errors.reports < MaxReports
    /\ \E error \in ErrorMessages :
          errors' = [errors EXCEPT !.error = error, !.reportedAt = errors.clock,
                                   !.timers = Append(@, errors.clock + AutoClearDelay),
                                   !.reports = @ + 1]
    /\ UNCHANGED <<panel, wallet, block, now, last, blocks, json>>

\* The callback of a timeout that is due: setError(null), whichever error is
\* displayed.
TimeoutFires ==
    /\ errors.timers # <<>>
    /\ Head(errors.timers) <= errors.clock
    /\ errors' = [errors EXCEPT !.error = Undef, !.timers = Tail(@)]
    /\ UNCHANGED <<panel, wallet, block, now, last, blocks, json>>

\* handleClearError: the Clear button of the displayed error.
handleClearError ==
    /\ errors.error # Undef
    /\ errors' = [errors EXCEPT !.error = Undef]
    /\ UNCHANGED <<panel, wallet, block, now, last, blocks, json>>

\* Time passes, up to the next timeout that is due.
Elapse ==
    /\ errors.clock < MaxClock
    /\ IF errors.timers = <<>> THEN TRUE ELSE Head(errors.timers) > errors.clock
    /\ LET later == IF errors.clock + Step > MaxClock THEN MaxClock
                    ELSE errors.clock + Step
       IN  errors' = [errors EXCEPT !.clock =
                          IF errors.timers = <<>> THEN later
                          ELSE IF Head(errors.timers) < later
                          THEN Head(errors.timers) ELSE later]
    /\ UNCHANGED <<panel, wallet, block, now, last, blocks, json>>

NextErrors == handleError \/ TimeoutFires \/ handleClearError \/ Elapse

SpecErrors == InitErrors /\ [][NextErrors]_vars

\* C22: a displayed error is cleared by a timeout only when its own 10
\* seconds have elapsed: a timeout set for an earlier error does not clear a
\* later one before that.
C22_ClearedAfterOwnDelay ==
    [][(/\ errors.error # Undef
        /\ errors'.error = Undef
        /\ errors'.timers # errors.timers)
       => errors.clock >= errors.reportedAt + AutoClearDelay]_vars

----------------------------------------------------------------------------
\* NetworkCheck: the effect that queries the network and listens for
\* chainChanged, and its cleanup.  wallet holds window.ethereum (whether it
\* exists, its chain, its chainChanged listeners in the order of
\* registration), the instances of the component mounted so far (mounts, the
\* last one being mounted or not), the calls of provider.getNetwork() that
\* have not settled (queries, by instance) and the state of the last instance.

AmoyChainId == 5001
MaxMounts == 2

WalletChains == {AmoyChainId, 1, 137}

\* A function is a listener by identity: the arrow function an instance
\* passes to on, and the one its cleanup passes to removeListener, are two
\* functions.
Listener(instance) == [created |-> "checkNetwork", instance |-> instance]
CleanupFunction(instance) == [created |-> "cleanup", instance |-> instance]

on(listeners, fn) == Append(listeners, fn)
removeListener(listeners, fn) == SelectSeq(listeners, LAMBDA l : l # fn)

InitNetwork ==
    /\ wallet \in {[ethereum |-> e, chain |-> c, listeners |-> <<>>, mounts |-> 0,
                    mounted |-> FALSE, queries |-> {}, isLoading |-> TRUE,
                    isWrongNetwork |-> FALSE] : e \in BOOLEAN, c \in WalletChains}
    /\ panel = Idle /\ errors = Idle
    /\ blocks = <<>>
    /\ json = [first |-> Pending, second |-> Pending]
    /\ block = NoBlock
    /\ now = FirstTick
    /\ last = Idle

\* The component mounts: the effect runs checkNetwork up to its await.
Mount ==
    /\ ~wallet.mounted
    /\ wallet.mounts < MaxMounts
    /\ wallet' = [wallet EXCEPT !.mounted = TRUE, !.mounts = @ + 1,
                                !.isWrongNetwork = FALSE,
                                !.isLoading = wallet.ethereum,
                                !.queries = IF wallet.ethereum
                                            THEN @ \cup {wallet.mounts + 1} ELSE @]
    /\ UNCHANGED <<panel, errors, block, now, last, blocks, json>>

\* provider.getNetwork() of an instance settles: with a network, the state is
\* set and the listener registered; rejected, only isLoading is set.  The
\* state written is that of the instance, shown while it is the mounted one.
getNetworkSettles ==
    /\ \E instance \in wallet.queries :
          LET shown == wallet.mounted /\ instance = wallet.mounts
          IN  \/ wallet' = [wallet EXCEPT
                    !.queries = @ \ {instance},
                    !.isWrongNetwork = IF shown THEN wallet.chain # AmoyChainId ELSE @,
                    !.isLoading = IF shown THEN FALSE ELSE @,
                    !.listeners = on(@, Listener(instance))]
              \/ wallet' = [wallet EXCEPT
                    !.queries = @ \ {instance},
                    !.isLoading = IF shown THEN FALSE ELSE @]
    /\ UNCHANGED <<panel, errors, block, now, last, blocks, json>>

\* The component unmounts: the cleanup of the effect runs.
Unmount ==
    /\ wallet.mounted
    /\ wallet' = [wallet EXCEPT
                    !.mounted = FALSE,
                    !.listeners = IF wallet.ethereum
                                  THEN removeListener(@, CleanupFunction(wallet.mounts))
                                  ELSE @]
    /\ UNCHANGED <<panel, errors, block, now, last, blocks, json>>

\* The wallet changes chain and calls every chainChanged listener.
chainChanged ==
    /\ wallet.ethereum
    /\ \E chainId \in WalletChains \ {wallet.chain} :
          wallet' = [wallet EXCEPT
                       !.chain = chainId,
                       !.isWrongNetwork =
                           IF /\ wallet.mounted
                              /\ \E k \in 1..Len(wallet.listeners) :
                                    wallet.listeners[k] = Listener(wallet.mounts)
                           THEN chainId # AmoyChainId ELSE @]
    /\ UNCHANGED <<panel, errors, block, now, last, blocks, json>>

NextNetwork == Mount \/ getNetworkSettles \/ Unmount \/ chainChanged

SpecNetwork == InitNetwork /\ [][NextNetwork]_vars

\* C23: every chainChanged listener registered on the wallet provider was
\* registered by the instance that is mounted: none of an unmounted instance
\* remains.
C23_NoListenerOfUnmounted ==
    \A k \in 1..Len(wallet.listeners) :
        wallet.mounted /\ wallet.listeners[k].instance = wallet.mounts

====
